---------------------------- MODULE Spec2Model ----------------------------
(***************************************************************************)
(* trac2gitea: the markdown converter's code-block pipeline                *)
(* (markdown/codeBlock.go, markdown/defaultConverter.go).                  *)
(*                                                                         *)
(* A text is a sequence of one-character strings.  The recursion of        *)
(* parseCodeBlocks is unfolded into one step per call: `in` is the text    *)
(* still to parse, `accumulated` the stack of opened blocks and `out` the  *)
(* text already returned in front of the recursive call.                   *)
(***************************************************************************)
EXTENDS Integers, Sequences, FiniteSets

\* ------------------------------------------------------------------ texts

Min(S) == CHOOSE x \in S : \A y \in S : x <= y

Take(s, n) == SubSeq(s, 1, n)

Drop(s, n) == SubSeq(s, n + 1, Len(s))

\* p occurs in s at index i
StartsAt(s, p, i) ==
    /\ i >= 1
    /\ i + Len(p) - 1 <= Len(s)
    /\ \A k \in 1..Len(p) : s[i + k - 1] = p[k]

\* the least index >= i at which p occurs in s, 0 when there is none
FindFrom(s, p, i) ==
    LET hits == {j \in i..Len(s) : StartsAt(s, p, j)}
    IN  IF hits = {} THEN 0 ELSE Min(hits)

Contains(s, p) == \E j \in 1..(Len(s) + 1) : StartsAt(s, p, j)

\* the number of indices at which p occurs in s
Count(s, p) == Cardinality({j \in 1..Len(s) : StartsAt(s, p, j)})

RECURSIVE Cat(_)
Cat(ss) == IF ss = <<>> THEN <<>> ELSE Head(ss) \o Cat(Tail(ss))

\* strings.HasPrefix
HasPrefix(s, p) == StartsAt(s, p, 1)

\* the characters of \s in a Go regexp, which are also the white space
\* strings.TrimSpace removes among the characters the model uses
SpaceChars == {" ", "\t", "\n", "\f", "\r"}

\* the characters of \w in a Go regexp
WordChars ==
    {"a", "b", "c", "d", "e", "f", "g", "h", "i", "j", "k", "l", "m",
     "n", "o", "p", "q", "r", "s", "t", "u", "v", "w", "x", "y", "z",
     "A", "B", "C", "D", "E", "F", "G", "H", "I", "J", "K", "L", "M",
     "N", "O", "P", "Q", "R", "S", "T", "U", "V", "W", "X", "Y", "Z",
     "0", "1", "2", "3", "4", "5", "6", "7", "8", "9", "_"}

\* strings.TrimSpace
TrimSpace(s) ==
    LET solid == {i \in 1..Len(s) : s[i] \notin SpaceChars}
    IN  IF solid = {} THEN <<>>
        ELSE SubSeq(s, Min(solid), CHOOSE i \in solid : \A j \in solid : j <= i)

\* strings.ReplaceAll(s, old, new), old not empty
RECURSIVE ReplaceAll(_, _, _)
ReplaceAll(s, old, new) ==
    LET i == FindFrom(s, old, 1)
    IN  IF i = 0 THEN s
        ELSE Take(s, i - 1) \o new \o ReplaceAll(Drop(s, i + Len(old) - 1), old, new)

\* ------------------------------------------------- codeBlock.go: the tables

OpenTok == <<"{", "{", "{">>
CloseTok == <<"}", "}", "}">>
DisguiseOpen == <<"{", "@", "{", "@", "{">>
DisguiseClose == <<"}", "@", "}", "@", "}">>
\* the backquote, which a TLA+ string cannot hold, is the atom "bq"
Backquote == "bq"
Fence == <<Backquote, Backquote, Backquote>>
HashBang == <<"#", "!">>

htmlTags ==
    << <<"d", "i", "v">>, <<"t", "d">>, <<"t", "h">>, <<"t", "r">>,
       <<"t", "a", "b", "l", "e">> >>

codeLangs ==
    << <<"c">>, <<"c", "+", "+">>, <<"p", "s", "1">>, <<"p", "h", "p">>,
       <<"p", "y">>, <<"s", "h">>, <<"c", "p", "p">>, <<"p", "l">> >>

\* a map that lost its entry
langMapNone(lang) == lang

\* langMap: the lang itself when the map has no entry for it
langMap(lang) == IF lang = <<"c", "+", "+">> THEN <<"c", "p", "p">> ELSE lang

CommitTicketReference ==
    <<"C", "o", "m", "m", "i", "t", "T", "i", "c", "k", "e", "t",
      "R", "e", "f", "e", "r", "e", "n", "c", "e">>

commentType == <<"c", "o", "m", "m", "e", "n", "t">>
htmlcommentPrefix == <<"h", "t", "m", "l", "c", "o", "m", "m", "e", "n", "t">>
htmlType == <<"h", "t", "m", "l">>

\* ------------------------------------------ codeBlock.go: parseCodeBlocks

\* codeBlockBoundaryRegexp: the index of the leftmost {{{ or }}}, 0 if none
BoundaryIndex(s) ==
    LET hits == {j \in 1..Len(s) : StartsAt(s, OpenTok, j) \/ StartsAt(s, CloseTok, j)}
    IN  IF hits = {} THEN 0 ELSE Min(hits)

\* codeBlockBoundaryRegexp.FindString(in)
BoundaryString(s) == SubSeq(s, BoundaryIndex(s), BoundaryIndex(s) + 2)

\* a split that leaves the boundary in the remaining text
SplitKeepsBoundary(s) == Drop(s, BoundaryIndex(s) - 1)

\* surroundings[0] and surroundings[1] of Split(in, 2)
BeforeBoundary(s) == Take(s, BoundaryIndex(s) - 1)

SplitAfterBoundary(s) == Drop(s, BoundaryIndex(s) + 2)

\* tracProcessorRegexp ^\s*#!(\w[^\n]*)? on the text after an opening:
\* found, the submatch match[1], and the index of the last matched character
tracProcessorMatch(s) ==
    LET solid == {i \in 1..Len(s) : s[i] \notin SpaceChars}
        w     == IF solid = {} THEN Len(s) ELSE Min(solid) - 1
        t     == w + 3
        nl    == FindFrom(s, <<"\n">>, t)
        e     == IF nl = 0 THEN Len(s) ELSE nl - 1
    IN  IF ~StartsAt(s, HashBang, w + 1)
        THEN [found |-> FALSE, proc |-> <<>>, end |-> 0]
        ELSE IF t <= Len(s) /\ s[t] \in WordChars
             THEN [found |-> TRUE, proc |-> SubSeq(s, t, e), end |-> e]
             ELSE [found |-> TRUE, proc |-> <<>>, end |-> w + 2]

\* match[1], or "" without a match
MatchedProcessor(after) == tracProcessorMatch(after).proc

\* afterBoundary once the processor line is split away
AfterProcessor(after) ==
    IF tracProcessorMatch(after).found
    THEN Drop(after, tracProcessorMatch(after).end)
    ELSE after

\* get rid of CommitTicketReference processors
DiscardCommitTicketReference(proc) ==
    IF HasPrefix(proc, CommitTicketReference) THEN <<>> ELSE proc

IsCodeLang(proc) == \E k \in 1..Len(codeLangs) : TrimSpace(proc) = codeLangs[k]

\* a tag test that compares instead of looking for a prefix
IsHtmlTagExact(proc) == \E k \in 1..Len(htmlTags) : proc = htmlTags[k]

IsHtmlTag(proc) == \E k \in 1..Len(htmlTags) : HasPrefix(proc, htmlTags[k])

\* the first tag of htmlTags that prefixes the processor (the loop breaks there)
FirstHtmlTag(proc) ==
    htmlTags[Min({k \in 1..Len(htmlTags) : HasPrefix(proc, htmlTags[k])})]

IsComment(proc) == HasPrefix(proc, commentType) \/ HasPrefix(proc, htmlcommentPrefix)

IsHtml(proc) == HasPrefix(proc, htmlType)

\* convertedBoundary of an opening: each test overrides the ones before it
OpenBoundary(proc) ==
    LET generic == DisguiseOpen \o (IF proc # <<>> THEN HashBang \o proc ELSE <<>>)
        lang    == IF IsCodeLang(proc)
                   THEN DisguiseOpen \o langMap(TrimSpace(proc)) ELSE generic
        tag     == IF IsHtmlTag(proc) THEN <<"<">> \o proc \o <<">", "\n">> ELSE lang
        comment == IF IsComment(proc) THEN <<"<", "!", "-", "-", "-">> ELSE tag
    IN  IF IsHtml(proc) THEN <<>> ELSE comment

\* blockType of an opening
OpenBlockType(proc) ==
    LET tag     == IF IsHtmlTag(proc) THEN FirstHtmlTag(proc) ELSE <<>>
        comment == IF IsComment(proc) THEN commentType ELSE tag
    IN  IF IsHtml(proc) THEN htmlType ELSE comment

\* a closing that forgets the html tags
CloseBoundaryNoTags(blockType) ==
    IF blockType = htmlType THEN <<>>
    ELSE IF blockType = commentType THEN <<"-", "-", ">">>
    ELSE DisguiseClose

\* convertedBoundary of a closing of a block of the given type
CloseBoundary(blockType) ==
    LET tag     == IF \E k \in 1..Len(htmlTags) : blockType = htmlTags[k]
                   THEN <<"\n", "<", "/">> \o blockType \o <<">">>
                   ELSE DisguiseClose
        comment == IF blockType = commentType THEN <<"-", "-", ">">> ELSE tag
    IN  IF blockType = htmlType THEN <<>> ELSE comment

\* an unmatched closing that is disguised like a matched one
UnmatchedBoundaryDisguised == DisguiseClose

\* a }}} met outside every block is neither converted nor disguised
UnmatchedBoundary == CloseTok

\* a closing that takes the oldest block off the stack
PopBlockOldest(acc) == SubSeq(acc, 2, Len(acc))

\* the stack after a closing
PopBlock(acc) == SubSeq(acc, 1, Len(acc) - 1)

\* an error that misses a single unclosed block
UnclosedErrorDeep(acc) == Len(acc) > 1

\* the error of an input that ends inside a block
UnclosedError(acc) == Len(acc) > 0

\* ------------------------------------------------ toc.go, defaultConverter.go

TocTag == <<"[", "[", "T", "O", "C", "]", "]">>

\* tocRegexp \[\[TOC\]\]\n+ replaced by nothing
RECURSIVE removeTOC(_)
removeTOC(s) ==
    LET i    == FindFrom(s, TocTag \o <<"\n">>, 1)
        rest == {j \in (i + Len(TocTag))..Len(s) : s[j] # "\n"}
        e    == IF rest = {} THEN Len(s) ELSE Min(rest) - 1
    IN  IF i = 0 THEN s ELSE Take(s, i - 1) \o removeTOC(Drop(s, e))

\* convertNonCodeBlockText: the transforms whose code is part of the sources
\* and that act on the texts of the model (which hold no link, anchor, list,
\* heading, font style, quote or table markup)
convertNonCodeBlockText(s) == removeTOC(s)

\* convertEOL
convertEOL(s) == ReplaceAll(s, <<"\r", "\n">>, <<"\n">>)

\* ------------------------- codeBlock.go: convertNonCodeBlocks, undisguise

\* (?m)$ and (?m)^ at index i of s
EndOfLineAt(s, i) == i = Len(s) + 1 \/ (i <= Len(s) /\ s[i] = "\n")

StartOfLineAt(s, i) == i = 1 \/ (i >= 2 /\ i <= Len(s) + 1 /\ s[i - 1] = "\n")

\* (?s)(.+?)(?:^{@{@{|\z) from index b: the index of the last character of
\* the shortest match, 0 when b is past the end (.+? needs a character)
NonCodeEnd(s, b) ==
    LET stops == {e \in (b + 1)..Len(s) :
                    StartOfLineAt(s, e) /\ StartsAt(s, DisguiseOpen, e)}
    IN  IF b > Len(s) THEN 0
        ELSE IF stops = {} THEN Len(s)
        ELSE Min(stops) + Len(DisguiseOpen) - 1

\* nonCodeBlockRegexp matched at index i: the index of the last character of
\* the match, 0 without a match.  }@}@}$ is tried before \A.
NonCodeMatchAt(s, i) ==
    LET closer == IF StartsAt(s, DisguiseClose, i)
                     /\ EndOfLineAt(s, i + Len(DisguiseClose))
                  THEN NonCodeEnd(s, i + Len(DisguiseClose)) ELSE 0
    IN  IF closer # 0 THEN closer
        ELSE IF i = 1 THEN NonCodeEnd(s, 1) ELSE 0

\* the successive matches of nonCodeBlockRegexp in s from index p on, each
\* <<first, last>>
RECURSIVE NonCodeMatches(_, _)
NonCodeMatches(s, p) ==
    LET starts == {i \in p..Len(s) : NonCodeMatchAt(s, i) # 0}
        i      == Min(starts)
    IN  IF starts = {} THEN <<>>
        ELSE <<(<<i, NonCodeMatchAt(s, i)>>)>> \o NonCodeMatches(s, NonCodeMatchAt(s, i) + 1)

\* convertNonCodeBlocks with convertNonCodeBlockText as convertFn
convertNonCodeBlocks(s) ==
    LET ms   == NonCodeMatches(s, 1)
        n    == Len(ms)
        gap(k)  == SubSeq(s, IF k = 1 THEN 1 ELSE ms[k - 1][2] + 1, ms[k][1] - 1)
        tail == IF n = 0 THEN s ELSE Drop(s, ms[n][2])
    IN  Cat([k \in 1..n |->
               gap(k) \o convertNonCodeBlockText(SubSeq(s, ms[k][1], ms[k][2]))])
        \o tail

\* singleLineCodeBlockRegexp {@{@{([^\n]+?)}@}@} matched at index i: the
\* index of the closing sentinel of the shortest match, 0 without a match
SingleLineCloseAt(s, i) ==
    LET b     == i + Len(DisguiseOpen)
        nl    == FindFrom(s, <<"\n">>, b)
        limit == IF nl = 0 THEN Len(s) ELSE nl - 1
        ends  == {e \in (b + 1)..limit : StartsAt(s, DisguiseClose, e)}
    IN  IF ~StartsAt(s, DisguiseOpen, i) \/ ends = {} THEN 0 ELSE Min(ends)

\* singleLineCodeBlockRegexp.ReplaceAllString(s, "`$1`")
RECURSIVE convertSingleLine(_)
convertSingleLine(s) ==
    LET starts == {i \in 1..Len(s) : SingleLineCloseAt(s, i) # 0}
        i      == Min(starts)
        e      == SingleLineCloseAt(s, i)
    IN  IF starts = {} THEN s
        ELSE Take(s, i - 1) \o <<Backquote>>
             \o SubSeq(s, i + Len(DisguiseOpen), e - 1) \o <<Backquote>>
             \o convertSingleLine(Drop(s, e + Len(DisguiseClose) - 1))

\* the fences alone, without the single-line pass
undisguiseFencesOnly(s) ==
    ReplaceAll(ReplaceAll(s, DisguiseOpen, Fence), DisguiseClose, Fence)

undisguiseCodeBlocks(s) ==
    ReplaceAll(ReplaceAll(convertSingleLine(s), DisguiseOpen, Fence),
               DisguiseClose, Fence)

\* ------------------------------------------------------------------ links

\* the zero-width space U+200B, one character
zeroWidthSpace == "zw"

Lower ==
    {"a", "b", "c", "d", "e", "f", "g", "h", "i", "j", "k", "l", "m",
     "n", "o", "p", "q", "r", "s", "t", "u", "v", "w", "x", "y", "z"}

Upper ==
    {"A", "B", "C", "D", "E", "F", "G", "H", "I", "J", "K", "L", "M",
     "N", "O", "P", "Q", "R", "S", "T", "U", "V", "W", "X", "Y", "Z"}

Digit == {"0", "1", "2", "3", "4", "5", "6", "7", "8", "9"}

Alpha == Lower \cup Upper

Alnum == Alpha \cup Digit

\* [[:alnum:]\-._~:/?#@!$&'"()*+,;%=]
UrlChars ==
    Alnum \cup {"-", ".", "_", "~", ":", "/", "?", "#", "@", "!", "$", "&",
                "'", "\"", "(", ")", "*", "+", ",", ";", "%", "="}

\* [[:alnum:]?/:@\-._\~!$&'()*+,;=] of the anchor of a CamelCase link
AnchorChars ==
    Alnum \cup {"?", "/", ":", "@", "-", ".", "_", "~", "!", "$", "&", "'",
                "(", ")", "*", "+", ",", ";", "="}

\* the last index of the longest run of characters of class that starts at
\* index b of s (b - 1 when there is none)
RunEnd(s, b, class) ==
    LET stops == {j \in b..Len(s) : s[j] \notin class}
    IN  IF stops = {} THEN (IF b > Len(s) THEN b - 1 ELSE Len(s)) ELSE Min(stops) - 1

\* the last index of the longest run of characters outside class
RunEndNot(s, b, class) ==
    LET stops == {j \in b..Len(s) : s[j] \in class}
    IN  IF stops = {} THEN (IF b > Len(s) THEN b - 1 ELSE Len(s)) ELSE Min(stops) - 1

Max(S) == CHOOSE x \in S : \A y \in S : y <= x

\* the successive non-overlapping leftmost matches of a regexp, given for
\* each index the last index of the match that starts there (0: none), as
\* a sequence of <<first, last>>
RECURSIVE MatchesFrom(_, _)
MatchesFrom(ends, p) ==
    LET starts == {i \in p..Len(ends) : ends[i] # 0}
    IN  IF starts = {} THEN <<>>
        ELSE <<<<Min(starts), ends[Min(starts)]>>>>
             \o MatchesFrom(ends, ends[Min(starts)] + 1)

\* Regexp.ReplaceAllStringFunc: s with each match replaced by the text
\* reps gives for it
ReplaceMatches(s, ms, reps) ==
    LET n       == Len(ms)
        gap(k)  == SubSeq(s, IF k = 1 THEN 1 ELSE ms[k - 1][2] + 1, ms[k][1] - 1)
        tail    == IF n = 0 THEN s ELSE Drop(s, ms[n][2])
    IN  Cat([k \in 1..n |-> gap(k) \o reps[k]]) \o tail

markOpen == <<"(", "@", "@">>

markClose == <<"@", "@", ")">>

markLink(url) == markOpen \o url \o markClose

\* strings.EqualFold(link, "br")
IsBr(link) == Len(link) = 2 /\ link[1] \in {"b", "B"} /\ link[2] \in {"r", "R"}

NoMatch == [last |-> 0, g1 |-> <<>>, g2 |-> <<>>, g3 |-> <<>>]

Match(e, a, b, c) == [last |-> e, g1 |-> a, g2 |-> b, g3 |-> c]

\* the index of the second ] of the first ] at or after p when another ]
\* follows it directly: [^\]]*\]\] matched at p (0: no match)
BracketsClose(s, p) ==
    LET q == RunEndNot(s, p, {"]"}) + 1
    IN  IF q + 1 <= Len(s) /\ s[q] = "]" /\ s[q + 1] = "]" THEN q + 1 ELSE 0

\* doubleBracketImageLinkRegexp matched at index i
\*   \[\[Image\(([^,)]+)(?:, *link=([...]+))?[^\]]*\]\]
ImageLinkAt(s, i) ==
    LET b     == i + 8
        m     == RunEndNot(s, b, {",", ")"})
        sp    == RunEnd(s, m + 2, {" "})
        lb    == sp + 6
        le    == RunEnd(s, lb, UrlChars \ {")", ","})
        hasLink == /\ m + 1 <= Len(s) /\ s[m + 1] = ","
                   /\ StartsAt(s, <<"l", "i", "n", "k", "=">>, sp + 1)
                   /\ le >= lb
        good  == {e \in b..m : BracketsClose(s, e + 1) # 0}
        e     == Max(good)
    IN  IF ~StartsAt(s, <<"[", "[", "I", "m", "a", "g", "e", "(">>, i) \/ good = {}
        THEN NoMatch
        ELSE Match(BracketsClose(s, e + 1), SubSeq(s, b, e),
                   IF e = m /\ hasLink THEN SubSeq(s, lb, le) ELSE <<>>, <<>>)

\* localFileLinkRegexp.MatchString: ^[[:alnum:]-._,]+\.[[:alpha:]]+$
IsLocalFile(image) ==
    \E k \in 2..(Len(image) - 1) :
        /\ image[k] = "."
        /\ \A j \in 1..(k - 1) : image[j] \in Alnum \cup {"-", ".", "_", ","}
        /\ \A j \in (k + 1)..Len(image) : image[j] \in Alpha

\* doubleBracketLinkRegexp matched at index i
\*   \[\[([[:alpha:]][^|\]]*)(?:\|([^\]]+))?\]\]
DoubleBracketAt(s, i) ==
    LET b  == i + 2
        m  == RunEndNot(s, b + 1, {"|", "]"})
        t  == RunEndNot(s, m + 2, {"]"})
    IN  IF ~(StartsAt(s, <<"[", "[">>, i) /\ b <= Len(s) /\ s[b] \in Alpha)
        THEN NoMatch
        ELSE IF StartsAt(s, <<"]", "]">>, m + 1)
        THEN Match(m + 2, SubSeq(s, b, m), <<>>, <<>>)
        ELSE IF /\ m + 1 <= Len(s) /\ s[m + 1] = "|"
                /\ t >= m + 2
                /\ StartsAt(s, <<"]", "]">>, t + 1)
        THEN Match(t + 2, SubSeq(s, b, m), SubSeq(s, m + 2, t), <<>>)
        ELSE NoMatch

\* singleBracketLinkRegexp matched at index i
\*   \[([[:alpha:]][^ \]]*)(?: +([^\]]+))?\]
\* the spaces give one back to the text when nothing else is left for it
SingleBracketAt(s, i) ==
    LET b  == i + 1
        m  == RunEndNot(s, b + 1, {" ", "]"})
        sp == RunEnd(s, m + 1, {" "})
        t  == RunEndNot(s, sp + 1, {"]"})
        closed(p) == p <= Len(s) /\ s[p] = "]"
    IN  IF ~(StartsAt(s, <<"[">>, i) /\ b <= Len(s) /\ s[b] \in Alpha)
        THEN NoMatch
        ELSE IF closed(m + 1)
        THEN Match(m + 1, SubSeq(s, b, m), <<>>, <<>>)
        ELSE IF sp >= m + 1 /\ t >= sp + 1 /\ closed(t + 1)
        THEN Match(t + 1, SubSeq(s, b, m), SubSeq(s, sp + 1, t), <<>>)
        ELSE IF sp >= m + 2 /\ closed(sp + 1)
        THEN Match(sp + 1, SubSeq(s, b, m), <<" ">>, <<>>)
        ELSE NoMatch

\* the value of a local that is assigned once: the element of a set of
\* one element
The(S) == CHOOSE x \in S : TRUE

\* ---- phase 1: convertBrackettedTracLinks

\* the accessor's relative path of a wiki attachment
GetWikiAttachmentRelPath(page, name) ==
    <<"a", "t", "t", "/">> \o page \o <<"/">> \o name

ConvertImage(page, m, match) ==
    LET image == IF IsLocalFile(m.g1)
                 THEN markLink(GetWikiAttachmentRelPath(page, m.g1))
                 ELSE m.g1
    IN  IF m.g2 = <<>>
        THEN <<"!", "[", "]">> \o image \o <<zeroWidthSpace>>
        ELSE <<"[", "!", "[", "]">> \o image \o <<"]">> \o m.g2 \o <<zeroWidthSpace>>

ConvertDoubleBracket(m, match) ==
    IF m.g2 = <<>>
    THEN (IF IsBr(m.g1) THEN match ELSE <<"[">> \o m.g1 \o <<"]">>)
    ELSE <<"[">> \o m.g1 \o <<" ">> \o m.g2 \o <<"]">>

ConvertSingleBracket(m, match) ==
    IF m.g2 = <<>>
    THEN (IF IsBr(m.g1) THEN match
          ELSE <<zeroWidthSpace>> \o m.g1 \o <<zeroWidthSpace>>)
    ELSE <<"[">> \o m.g2 \o <<"]">> \o m.g1 \o <<zeroWidthSpace>>

\* the three ReplaceAllStringFunc of the function, each on the result of
\* the one before
convertBrackettedTracLinks(page, text) ==
    LET images ==
            {ReplaceMatches(text, ms,
                 [k \in 1..Len(ms) |->
                     ConvertImage(page, ImageLinkAt(text, ms[k][1]),
                                  SubSeq(text, ms[k][1], ms[k][2]))]) :
                 ms \in {MatchesFrom([i \in 1..Len(text) |->
                                         ImageLinkAt(text, i).last], 1)}}
        doubles ==
            UNION {{ReplaceMatches(im, ms,
                        [k \in 1..Len(ms) |->
                            ConvertDoubleBracket(DoubleBracketAt(im, ms[k][1]),
                                                 SubSeq(im, ms[k][1], ms[k][2]))]) :
                        ms \in {MatchesFrom([i \in 1..Len(im) |->
                                                DoubleBracketAt(im, i).last], 1)}} :
                   im \in images}
        singles ==
            UNION {{ReplaceMatches(db, ms,
                        [k \in 1..Len(ms) |->
                            ConvertSingleBracket(SingleBracketAt(db, ms[k][1]),
                                                 SubSeq(db, ms[k][1], ms[k][2]))]) :
                        ms \in {MatchesFrom([i \in 1..Len(db) |->
                                                SingleBracketAt(db, i).last], 1)}} :
                   db \in doubles}
    IN  The(singles)

\* ---- phase 2: the regexps of convertUnbrackettedTracLinks

\* httpLinkRegexp  https?://[...]*[[:alnum:]]
HttpAt(s, i) ==
    LET http  == <<"h", "t", "t", "p">>
        b     == IF StartsAt(s, http \o <<"s", ":", "/", "/">>, i) THEN i + 8
                 ELSE IF StartsAt(s, http \o <<":", "/", "/">>, i) THEN i + 7
                 ELSE 0
        m     == RunEnd(s, b, UrlChars)
        lasts == {e \in b..m : s[e] \in Alnum}
    IN  IF b = 0 \/ lasts = {} THEN NoMatch
        ELSE Match(Max(lasts), <<>>, <<>>, <<>>)

\* a prefix followed by one or more characters of a class
PrefixRunAt(s, i, prefix, class) ==
    LET b == i + Len(prefix)
        m == RunEnd(s, b, class)
    IN  IF StartsAt(s, prefix, i) /\ m >= b
        THEN Match(m, SubSeq(s, b, m), <<>>, <<>>)
        ELSE NoMatch

\* htdocsLinkRegexp  htdocs:([...]+)
HtdocsAt(s, i) == PrefixRunAt(s, i, <<"h", "t", "d", "o", "c", "s", ":">>, UrlChars)

\* ticketCommentLinkRegexp  comment:([[:digit:]]+)(?::ticket:([[:digit:]]+))?
TicketCommentAt(s, i) ==
    LET num == PrefixRunAt(s, i, <<"c", "o", "m", "m", "e", "n", "t", ":">>, Digit)
        tkt == PrefixRunAt(s, num.last + 1, <<":", "t", "i", "c", "k", "e", "t", ":">>, Digit)
    IN  IF num.last = 0 THEN NoMatch
        ELSE IF tkt.last = 0 THEN num
        ELSE Match(tkt.last, num.g1, tkt.g1, <<>>)

\* milestoneLinkRegexp  milestone:([...]+)
MilestoneAt(s, i) ==
    PrefixRunAt(s, i, <<"m", "i", "l", "e", "s", "t", "o", "n", "e", ":">>, UrlChars)

\* attachmentLinkRegexp
\*   attachment:([...]+)(?:(?::wiki:((?:[[:upper:]][[:lower:]]*)+))|(?::ticket:([[:digit:]]+)))?
AttachmentAt(s, i) ==
    LET name == PrefixRunAt(s, i, <<"a", "t", "t", "a", "c", "h", "m", "e", "n", "t", ":">>,
                            UrlChars \ {":"})
        wikiSuffix == <<":", "w", "i", "k", "i", ":">>
        wb   == name.last + 1 + Len(wikiSuffix)
        we   == RunEnd(s, wb, Alpha)
        wiki == /\ StartsAt(s, wikiSuffix, name.last + 1)
                /\ wb <= Len(s) /\ s[wb] \in Upper
        tkt  == PrefixRunAt(s, name.last + 1, <<":", "t", "i", "c", "k", "e", "t", ":">>, Digit)
    IN  IF name.last = 0 THEN NoMatch
        ELSE IF wiki THEN Match(we, name.g1, SubSeq(s, wb, we), <<>>)
        ELSE IF tkt.last # 0 THEN Match(tkt.last, name.g1, <<>>, tkt.g1)
        ELSE name

\* changesetLinkRegexp  changeset:"([[:xdigit:]]+)/[^"]+"
ChangesetAt(s, i) ==
    LET id == PrefixRunAt(s, i, <<"c", "h", "a", "n", "g", "e", "s", "e", "t", ":", "\"">>,
                          Digit \cup {"a", "b", "c", "d", "e", "f", "A", "B", "C", "D", "E", "F"})
        q  == RunEndNot(s, id.last + 2, {"\""})
    IN  IF /\ id.last # 0
           /\ id.last + 1 <= Len(s) /\ s[id.last + 1] = "/"
           /\ q >= id.last + 2
           /\ q + 1 <= Len(s)
        THEN Match(q + 1, id.g1, <<>>, <<>>)
        ELSE NoMatch

\* sourceLinkRegexp  source:"[^/]+/([^"]+)"
SourceAt(s, i) ==
    LET prefix == <<"s", "o", "u", "r", "c", "e", ":", "\"">>
        b  == i + Len(prefix)
        p  == RunEndNot(s, b, {"/"}) + 1
        q  == RunEndNot(s, p + 1, {"\""})
    IN  IF /\ StartsAt(s, prefix, i)
           /\ p > b /\ p <= Len(s)
           /\ q >= p + 1
           /\ q + 1 <= Len(s)
        THEN Match(q + 1, SubSeq(s, p + 1, q), <<>>, <<>>)
        ELSE NoMatch

\* ticketLinkRegexp  ticket:([[:digit:]]+)
TicketAt(s, i) == PrefixRunAt(s, i, <<"t", "i", "c", "k", "e", "t", ":">>, Digit)

\* an optional #<anchor> after index e: the # and the anchor
AnchorAfter(s, e, class) ==
    LET a == RunEnd(s, e + 2, class)
    IN  IF e + 1 <= Len(s) /\ s[e + 1] = "#" /\ a >= e + 2
        THEN SubSeq(s, e + 1, a) ELSE <<>>

\* wikiLinkRegexp  wiki:([...]*[[:alnum:]])(?:#([...]+))?
WikiAt(s, i) ==
    LET prefix == <<"w", "i", "k", "i", ":">>
        b      == i + Len(prefix)
        m      == RunEnd(s, b, Alnum \cup {":", "-", ".", "_", "&", "'"})
        lasts  == {e \in b..m : s[e] \in Alnum}
        e      == Max(lasts)
        anchor == AnchorAfter(s, e, AnchorChars \ {"(", ")"})
    IN  IF ~StartsAt(s, prefix, i) \/ lasts = {} THEN NoMatch
        ELSE Match(e + Len(anchor), SubSeq(s, b, e), Drop(anchor, 1), <<>>)

\* the last index of (?:[[:upper:]][[:lower:]]+)* matched at b, and the
\* number of its repetitions
RECURSIVE CamelWords(_, _)
CamelWords(s, b) ==
    LET e == RunEnd(s, b + 1, Lower)
    IN  IF b <= Len(s) /\ s[b] \in Upper /\ e >= b + 1
        THEN LET rest == CamelWords(s, e + 1)
             IN  [last |-> rest.last, count |-> rest.count + 1]
        ELSE [last |-> b - 1, count |-> 0]

\* wikiCamelCaseLinkRegexp
\*   ([[:space:]\x{200B}\]]|\A)((?:[[:upper:]][[:lower:]]+){2,})(?:#([...]+))?
\* g1 is the leading character, g2 the page, g3 the anchor
WikiCamelCaseAt(s, i) ==
    LET led    == /\ s[i] \in {" ", "\t", "\n", "\f", "\r", zeroWidthSpace, "]"}
                  /\ CamelWords(s, i + 1).count >= 2
        b      == IF led THEN i + 1 ELSE i
        words  == CamelWords(s, b)
        anchor == AnchorAfter(s, words.last, AnchorChars)
    IN  IF led \/ (i = 1 /\ words.count >= 2)
        THEN Match(words.last + Len(anchor),
                   IF led THEN <<s[i]>> ELSE <<>>, SubSeq(s, b, words.last), Drop(anchor, 1))
        ELSE NoMatch

\* ---- phase 3: the regexps of unmarkLinks

\* markedLinkRegexp  \(@@([^@]+)@@\)
MarkedLinkAt(s, i) ==
    LET b == i + Len(markOpen)
        m == RunEndNot(s, b, {"@"})
    IN  IF StartsAt(s, markOpen, i) /\ m >= b /\ StartsAt(s, markClose, m + 1)
        THEN Match(m + 3, SubSeq(s, b, m), <<>>, <<>>)
        ELSE NoMatch

\* noTextMarkedLinkRegexp  ([^\]])\(@@([^@]+)@@\)
NoTextMarkedLinkAt(s, i) ==
    LET m == MarkedLinkAt(s, i + 1)
    IN  IF s[i] # "]" /\ m.last # 0
        THEN Match(m.last, <<s[i]>>, m.g1, <<>>)
        ELSE NoMatch

\* httpLinkRegexp.MatchString looks for a match anywhere in the URL
UnmarkNoText(m, match) ==
    IF \E i \in 1..Len(m.g2) : HttpAt(m.g2, i).last # 0
    THEN m.g1 \o <<"<">> \o m.g2 \o <<">">>
    ELSE m.g1 \o <<"[">> \o m.g2 \o <<"]", "(">> \o m.g2 \o <<")">>

UnmarkWithText(m, match) == <<"(">> \o m.g1 \o <<")">>

unmarkLinks(text) ==
    LET noText ==
            {ReplaceMatches(text, ms,
                 [k \in 1..Len(ms) |->
                     UnmarkNoText(NoTextMarkedLinkAt(text, ms[k][1]),
                                  SubSeq(text, ms[k][1], ms[k][2]))]) :
                 ms \in {MatchesFrom([i \in 1..Len(text) |->
                                         NoTextMarkedLinkAt(text, i).last], 1)}}
        withText ==
            UNION {{ReplaceMatches(nt, ms,
                        [k \in 1..Len(ms) |->
                            UnmarkWithText(MarkedLinkAt(nt, ms[k][1]),
                                           SubSeq(nt, ms[k][1], ms[k][2]))]) :
                        ms \in {MatchesFrom([i \in 1..Len(nt) |->
                                                MarkedLinkAt(nt, i).last], 1)}} :
                   nt \in noText}
    IN  The({ReplaceAll(wt, <<zeroWidthSpace>>, <<>>) : wt \in withText})

\* ---- the accessors the resolvers call

\* trac.NullID and gitea.NullID
NullID == 0 - 1

\* strconv.ParseInt(s, 10, 64) of a text of digits: the value, or an error
\* when it does not fit 64 bits
RECURSIVE Decimal(_)
Decimal(s) ==
    IF s = <<>> THEN 0
    ELSE 10 * Decimal(SubSeq(s, 1, Len(s) - 1))
         + (CHOOSE d \in 0..9 : <<"0", "1", "2", "3", "4", "5", "6", "7", "8", "9">>[d + 1]
                = s[Len(s)])

\* strconv.ParseInt fails on a text of digits when the number is above
\* the largest int64, 9223372036854775807
ParseIntFails(s) ==
    LET max == <<"9", "2", "2", "3", "3", "7", "2", "0", "3", "6", "8", "5", "4", "7", "7", "5",
                 "8", "0", "7">>
        n   == SubSeq(s, RunEnd(s, 1, {"0"}) + 1, Len(s))
    IN  \/ s = <<>>
        \/ Len(n) > Len(max)
        \/ /\ Len(n) = Len(max)
           /\ \E k \in 1..Len(n) :
                  /\ \A j \in 1..(k - 1) : n[j] = max[j]
                  /\ Decimal(<<n[k]>>) > Decimal(<<max[k]>>)

\* fmt.Sprintf("%d", n) of a number that is not negative
RECURSIVE Sprintd(_)
Sprintd(n) ==
    IF n < 10 THEN <<<<"0", "1", "2", "3", "4", "5", "6", "7", "8", "9">>[n + 1]>>
    ELSE Sprintd(n \div 10) \o Sprintd(n % 10)

\* getUserRepoURL
RepoURL == <<"h", "t", "t", "p", ":", "/", "/", "g">>

Failed(e, call) == call \in e.errors

\* GetIssueID: the issue of a ticket, NullID without one
GetIssueID(e, ticket) ==
    IF ticket \in DOMAIN e.issues THEN e.issues[ticket] ELSE NullID

\* GetTicketCommentTime: the time of the comment change, 0 without a row
GetTicketCommentTime(e, ticket, commentNum) ==
    IF <<ticket, commentNum>> \in DOMAIN e.commentTimes
    THEN e.commentTimes[<<ticket, commentNum>>] ELSE 0

\* the ids of a set of comments in ascending order of type
RECURSIVE OrderByType(_)
OrderByType(cs) ==
    IF cs = {} THEN <<>>
    ELSE LET c == CHOOSE x \in cs : \A y \in cs : x.type <= y.type
         IN  <<c.id>> \o OrderByType(cs \ {c})

\* GetIssueCommentIDsByTime: select id where issue_id and created_unix
\* match, order by type asc
GetIssueCommentIDsByTime(e, issueID, createdTime) ==
    OrderByType({c \in e.comments : c.issue = issueID /\ c.time = createdTime})

\* GetIssueCommentURL
GetIssueCommentURL(issueNumber, commentID) ==
    RepoURL \o <<"/", "i", "s", "s", "u", "e", "s", "/">> \o Sprintd(issueNumber)
    \o <<"#", "i", "s", "s", "u", "e", "c", "o", "m", "m", "e", "n", "t", "-">>
    \o Sprintd(commentID)

GetIssueURL(issueID) ==
    RepoURL \o <<"/", "i", "s", "s", "u", "e", "s", "/">> \o Sprintd(issueID)

GetMilestoneID(e, name) ==
    IF name \in DOMAIN e.milestones THEN e.milestones[name] ELSE NullID

GetMilestoneURL(milestoneID) ==
    RepoURL \o <<"/", "m", "i", "l", "e", "s", "t", "o", "n", "e", "/">> \o Sprintd(milestoneID)

\* GetIssueAttachmentUUID: the uuid, the empty text without one
GetIssueAttachmentUUID(e, issueID, name) ==
    IF <<issueID, name>> \in DOMAIN e.uuids THEN e.uuids[<<issueID, name>>] ELSE <<>>

GetIssueAttachmentURL(issueID, uuid) ==
    RepoURL \o <<"/", "a", "t", "t", "a", "c", "h", "m", "e", "n", "t", "s", "/">> \o uuid

GetWikiFileURL(relPath) == RepoURL \o <<"/", "w", "i", "k", "i", "/", "r", "a", "w", "/">> \o relPath

GetWikiHtdocRelPath(path) == <<"h", "t", "d", "o", "c", "s", "/">> \o path

GetCommitURL(commitID) == RepoURL \o <<"/", "c", "o", "m", "m", "i", "t", "/">> \o commitID

\* GetSourceURL("master", path)
GetSourceURL(path) ==
    RepoURL \o <<"/", "s", "r", "c", "/", "b", "r", "a", "n", "c", "h", "/",
                 "m", "a", "s", "t", "e", "r", "/">> \o path

TranslateWikiPageName(name) ==
    IF name = <<"W", "i", "k", "i", "S", "t", "a", "r", "t">> THEN <<"H", "o", "m", "e">>
    ELSE name

\* ---- the resolvers: the text put in place of the match, whether it is
\* marked, whether a warning is logged and the copy asked of the accessor

Kept(link, warn) == [out |-> link, marked |-> FALSE, warn |-> warn, copy |-> <<>>]

Marked(url) == [out |-> markLink(url), marked |-> TRUE, warn |-> FALSE, copy |-> <<>>]

resolveHTTPLink(link) == Marked(link)

\* CopyFileToWiki is called and what it returns is dropped
resolveHtdocsLink(m, link) ==
    LET wikiHtdocRelPath == GetWikiHtdocRelPath(m.g1)
    IN  [Marked(GetWikiFileURL(wikiHtdocRelPath)) EXCEPT !.copy = wikiHtdocRelPath]

\* the comment resolver taking the last id of the list
resolveTicketCommentLinkLastID(e, ticket, m, link) ==
    LET commentNum      == Decimal(m.g1)
        commentTicketID == IF m.g2 # <<>> THEN Decimal(m.g2) ELSE ticket
        issueID         == GetIssueID(e, commentTicketID)
        timestamp       == GetTicketCommentTime(e, commentTicketID, commentNum)
        commentIDs      == GetIssueCommentIDsByTime(e, issueID, timestamp)
    IN  IF ParseIntFails(m.g1) THEN Kept(link, TRUE)
        ELSE IF m.g2 # <<>> /\ ParseIntFails(m.g2) THEN Kept(link, TRUE)
        ELSE IF m.g2 = <<>> /\ ticket = NullID THEN Kept(link, TRUE)
        ELSE IF Failed(e, "GetIssueID") THEN Kept(link, FALSE)
        ELSE IF issueID = NullID THEN Kept(link, TRUE)
        ELSE IF Failed(e, "GetTicketCommentTime") \/ timestamp = 0 THEN Kept(link, FALSE)
        ELSE IF Failed(e, "GetIssueCommentIDsByTime") \/ Len(commentIDs) = 0
             THEN Kept(link, FALSE)
        ELSE Marked(GetIssueCommentURL(issueID, commentIDs[Len(commentIDs)]))

resolveTicketCommentLink(e, ticket, m, link) ==
    LET commentNum      == Decimal(m.g1)
        commentTicketID == IF m.g2 # <<>> THEN Decimal(m.g2) ELSE ticket
        issueID         == GetIssueID(e, commentTicketID)
        timestamp       == GetTicketCommentTime(e, commentTicketID, commentNum)
        commentIDs      == GetIssueCommentIDsByTime(e, issueID, timestamp)
    IN  IF ParseIntFails(m.g1) THEN Kept(link, TRUE)
        ELSE IF m.g2 # <<>> /\ ParseIntFails(m.g2) THEN Kept(link, TRUE)
        ELSE IF m.g2 = <<>> /\ ticket = NullID THEN Kept(link, TRUE)
        ELSE IF Failed(e, "GetIssueID") THEN Kept(link, FALSE)
        ELSE IF issueID = NullID THEN Kept(link, TRUE)
        ELSE IF Failed(e, "GetTicketCommentTime") \/ timestamp = 0 THEN Kept(link, FALSE)
        ELSE IF Failed(e, "GetIssueCommentIDsByTime") \/ Len(commentIDs) = 0
             THEN Kept(link, FALSE)
        ELSE Marked(GetIssueCommentURL(issueID, commentIDs[1]))

resolveMilestoneLink(e, m, link) ==
    LET milestoneID == GetMilestoneID(e, m.g1)
    IN  IF Failed(e, "GetMilestoneID") THEN Kept(link, FALSE)
        ELSE IF milestoneID = NullID THEN Kept(link, TRUE)
        ELSE Marked(GetMilestoneURL(milestoneID))

resolveTicketAttachmentLink(e, ticket, attachmentName, link) ==
    LET issueID == GetIssueID(e, ticket)
        uuid    == GetIssueAttachmentUUID(e, issueID, attachmentName)
    IN  IF Failed(e, "GetIssueID") THEN Kept(link, FALSE)
        ELSE IF issueID = NullID THEN Kept(link, TRUE)
        ELSE IF Failed(e, "GetIssueAttachmentUUID") THEN Kept(link, FALSE)
        ELSE IF uuid = <<>> THEN Kept(link, TRUE)
        ELSE Marked(GetIssueAttachmentURL(issueID, uuid))

resolveWikiAttachmentLink(page, attachmentName, link) ==
    Marked(GetWikiFileURL(GetWikiAttachmentRelPath(page, attachmentName)))

\* the attachment resolver taking the context of the document before the
\* suffix of the link
resolveAttachmentLinkContextFirst(e, ticket, page, m, link) ==
    IF ticket # NullID THEN resolveTicketAttachmentLink(e, ticket, m.g1, link)
    ELSE IF page # <<>> THEN resolveWikiAttachmentLink(page, m.g1, link)
    ELSE IF m.g3 # <<>>
    THEN (IF ParseIntFails(m.g3) THEN Kept(link, TRUE)
          ELSE resolveTicketAttachmentLink(e, Decimal(m.g3), m.g1, link))
    ELSE IF m.g2 # <<>> THEN resolveWikiAttachmentLink(m.g2, m.g1, link)
    ELSE Kept(link, TRUE)

resolveAttachmentLink(e, ticket, page, m, link) ==
    IF m.g3 # <<>>
    THEN (IF ParseIntFails(m.g3) THEN Kept(link, TRUE)
          ELSE resolveTicketAttachmentLink(e, Decimal(m.g3), m.g1, link))
    ELSE IF m.g2 # <<>> THEN resolveWikiAttachmentLink(m.g2, m.g1, link)
    ELSE IF ticket # NullID THEN resolveTicketAttachmentLink(e, ticket, m.g1, link)
    ELSE IF page # <<>> THEN resolveWikiAttachmentLink(page, m.g1, link)
    ELSE Kept(link, TRUE)

resolveChangesetLink(m, link) == Marked(GetCommitURL(m.g1))

resolveSourceLink(m, link) == Marked(GetSourceURL(m.g1))

resolveTicketLink(e, m, link) ==
    LET issueID == GetIssueID(e, Decimal(m.g1))
    IN  IF ParseIntFails(m.g1) THEN Kept(link, TRUE)
        ELSE IF Failed(e, "GetIssueID") THEN Kept(link, FALSE)
        ELSE IF issueID = NullID THEN Kept(link, TRUE)
        ELSE Marked(GetIssueURL(issueID))

WithAnchor(page, anchor) ==
    IF anchor = <<>> THEN page ELSE page \o <<"#">> \o anchor

resolveWikiLink(m, link) == Marked(WithAnchor(TranslateWikiPageName(m.g1), m.g2))

resolveWikiCamelCaseLink(m, link) ==
    LET r == Marked(WithAnchor(TranslateWikiPageName(m.g2), m.g3))
    IN  [r EXCEPT !.out = m.g1 \o r.out]

\* ---- phase 2: convertUnbrackettedTracLinks, one grammar at a time

Grammars ==
    <<"http", "htdocs", "comment", "milestone", "attachment", "changeset",
      "source", "ticket", "wiki", "camelcase">>

GrammarAt(g, s, i) ==
    CASE g = "http"       -> HttpAt(s, i)
      [] g = "htdocs"     -> HtdocsAt(s, i)
      [] g = "comment"    -> TicketCommentAt(s, i)
      [] g = "milestone"  -> MilestoneAt(s, i)
      [] g = "attachment" -> AttachmentAt(s, i)
      [] g = "changeset"  -> ChangesetAt(s, i)
      [] g = "source"     -> SourceAt(s, i)
      [] g = "ticket"     -> TicketAt(s, i)
      [] g = "wiki"       -> WikiAt(s, i)
      [] g = "camelcase"  -> WikiCamelCaseAt(s, i)

Resolve(g, e, ticket, page, m, link) ==
    CASE g = "http"       -> resolveHTTPLink(link)
      [] g = "htdocs"     -> resolveHtdocsLink(m, link)
      [] g = "comment"    -> resolveTicketCommentLink(e, ticket, m, link)
      [] g = "milestone"  -> resolveMilestoneLink(e, m, link)
      [] g = "attachment" -> resolveAttachmentLink(e, ticket, page, m, link)
      [] g = "changeset"  -> resolveChangesetLink(m, link)
      [] g = "source"     -> resolveSourceLink(m, link)
      [] g = "ticket"     -> resolveTicketLink(e, m, link)
      [] g = "wiki"       -> resolveWikiLink(m, link)
      [] g = "camelcase"  -> resolveWikiCamelCaseLink(m, link)

\* the resolutions of the matches of grammar g in s, in the order of the text
Resolutions(g, e, ticket, page, s) ==
    The({[k \in 1..Len(ms) |->
              LET link == SubSeq(s, ms[k][1], ms[k][2])
                  r    == Resolve(g, e, ticket, page, GrammarAt(g, s, ms[k][1]), link)
              IN  [grammar |-> g, first |-> ms[k][1], last |-> ms[k][2], link |-> link,
                   out |-> r.out, marked |-> r.marked, warn |-> r.warn, copy |-> r.copy]] :
          ms \in {MatchesFrom([i \in 1..Len(s) |-> GrammarAt(g, s, i).last], 1)}})

\* <regexp of g>.ReplaceAllStringFunc(s, resolver of g)
ResolveGrammar(g, e, ticket, page, s) ==
    The({ReplaceMatches(s, [k \in 1..Len(rs) |-> <<rs[k].first, rs[k].last>>],
                        [k \in 1..Len(rs) |-> rs[k].out]) :
         rs \in {Resolutions(g, e, ticket, page, s)}})

\* ------------------------------------------------------------------ state

VARIABLES
    doc,          \* the text handed to TicketConvert / WikiConvert
    pc,           \* the step convert() is at
    in,           \* parseCodeBlocks: the remaining text
    accumulated,  \* parseCodeBlocks: the block types of the opened blocks
    out,          \* the text returned so far by parseCodeBlocks
    errLogged,    \* log.Error was called
    routed,       \* the result of convertNonCodeBlocks
    final,        \* the result of undisguiseCodeBlocks
    step,         \* history: the last call of parseCodeBlocks
    blocks        \* history: the blocks opened so far, in opening order

\* convertLinks(ticketID, wikiPage, in): the state of one call
VARIABLES
    linkPc,       \* the phase convertLinks is at
    grammar,      \* phase 2: the index in Grammars of the next grammar
    linkIn,       \* the text convertLinks is given
    linkText,     \* the text as converted so far
    ticketID,     \* the ticket of TicketConvert, trac.NullID for WikiConvert
    wikiPage,     \* the page of WikiConvert, empty for TicketConvert
    env,          \* what the accessors hold and which of their calls fail
    copied,       \* the calls of CopyFileToWiki
    warnings,     \* the number of calls of log.Warn
    resolutions   \* history: the matches that were handed to a resolver

\* GetTicketChanges(ticketID, handlerFn): the state of one call
VARIABLES
    tracTicket,     \* the row of the ticket in the ticket table
    ticketChange,   \* the rows of the ticket in the ticket_change table
    handlerFails,   \* the call of handlerFn that returns an error, 0: none
    changes,        \* the changes handed to handlerFn so far
    changesPc       \* the step GetTicketChanges is at

\* the accessor of gitea and the importer: the state of one run of each
VARIABLES
    issueComment,   \* AddIssueComment: the comment table and the last call
    ticketRun,      \* ImportTickets: the tickets, the position, the calls made
    importRun       \* performImport: the options, the position, the calls made

importVars ==
    <<tracTicket, ticketChange, handlerFails, changes, changesPc, issueComment, ticketRun,
      importRun>>

NoComments == issueComment = [pc |-> "none"]

NoTickets == ticketRun = [pc |-> "none"]

NoRun == importRun = [pc |-> "none"]

\* no call of GetTicketChanges is modelled
NoChanges ==
    /\ tracTicket = [reporter |-> "", time |-> 0, values |-> <<>>]
    /\ ticketChange = {}
    /\ handlerFails = 0
    /\ changes = <<>>
    /\ changesPc = "none"

\* no call of the importer is modelled
NoImport == NoChanges /\ NoComments /\ NoTickets /\ NoRun

linkVars ==
    <<linkPc, grammar, linkIn, linkText, ticketID, wikiPage, env, copied, warnings,
      resolutions>>

NoLinks ==
    /\ linkPc = "none"
    /\ grammar = 0
    /\ linkIn = <<>>
    /\ linkText = <<>>
    /\ ticketID = NullID
    /\ wikiPage = <<>>
    /\ env = [issues |-> <<>>, commentTimes |-> <<>>, comments |-> {}, milestones |-> <<>>,
              uuids |-> <<>>, errors |-> {}]
    /\ copied = <<>>
    /\ warnings = 0
    /\ resolutions = <<>>

vars ==
    <<doc, pc, in, accumulated, out, errLogged, routed, final, step, blocks,
      linkPc, grammar, linkIn, linkText, ticketID, wikiPage, env, copied, warnings,
      resolutions, importVars>>

NoStep == [kind |-> "none", prevIn |-> <<>>, prevAcc |-> <<>>, prevOut |-> <<>>]

\* the index in blocks of the block on top of the stack
TopBlock == CHOOSE k \in 1..Len(blocks) :
                /\ ~blocks[k].closed
                /\ \A j \in 1..Len(blocks) : ~blocks[j].closed => j <= k

Start(docs) ==
    /\ doc \in docs
    /\ pc = "eol"
    /\ in = <<>>
    /\ accumulated = <<>>
    /\ out = <<>>
    /\ errLogged = FALSE
    /\ routed = <<>>
    /\ final = <<>>
    /\ step = NoStep
    /\ blocks = <<>>
    /\ NoLinks
    /\ NoImport

\* convert(): ensure we have Unix EOLs, then convertCodeBlocks starts with
\* an empty stack
ConvertEOL ==
    /\ pc = "eol"
    /\ in' = convertEOL(doc)
    /\ pc' = "parse"
    /\ UNCHANGED <<doc, accumulated, out, errLogged, routed, final, step, blocks>>
    /\ UNCHANGED linkVars
    /\ UNCHANGED importVars

\* parseCodeBlocks at a {{{
ParseOpen ==
    /\ pc = "parse"
    /\ BoundaryIndex(in) # 0
    /\ BoundaryString(in) = OpenTok
    /\ LET after == SplitAfterBoundary(in)
           raw   == MatchedProcessor(after)
           proc  == DiscardCommitTicketReference(raw)
       IN  /\ out' = out \o BeforeBoundary(in) \o OpenBoundary(proc)
           /\ accumulated' = Append(accumulated, OpenBlockType(proc))
           /\ in' = AfterProcessor(after)
           /\ blocks' = Append(blocks,
                  [frame   |-> OpenBlockType(proc),
                   raw     |-> raw,
                   proc    |-> proc,
                   opener  |-> OpenBoundary(proc),
                   openAt  |-> Len(out) + Len(BeforeBoundary(in)) + 1,
                   closed  |-> FALSE,
                   closer  |-> <<>>,
                   closeAt |-> 0])
    /\ step' = [kind |-> "open", prevIn |-> in, prevAcc |-> accumulated, prevOut |-> out]
    /\ UNCHANGED <<doc, pc, errLogged, routed, final>>
    /\ UNCHANGED linkVars
    /\ UNCHANGED importVars

\* parseCodeBlocks at a }}} inside a block
ParseClose ==
    /\ pc = "parse"
    /\ BoundaryIndex(in) # 0
    /\ BoundaryString(in) = CloseTok
    /\ Len(accumulated) # 0
    /\ LET blockType == accumulated[Len(accumulated)]
       IN  /\ out' = out \o BeforeBoundary(in) \o CloseBoundary(blockType)
           /\ blocks' = [blocks EXCEPT
                  ![TopBlock].closed  = TRUE,
                  ![TopBlock].closer  = CloseBoundary(blockType),
                  ![TopBlock].closeAt = Len(out) + Len(BeforeBoundary(in)) + 1]
    /\ accumulated' = PopBlock(accumulated)
    /\ in' = SplitAfterBoundary(in)
    /\ step' = [kind |-> "close", prevIn |-> in, prevAcc |-> accumulated, prevOut |-> out]
    /\ UNCHANGED <<doc, pc, errLogged, routed, final>>
    /\ UNCHANGED linkVars
    /\ UNCHANGED importVars

\* parseCodeBlocks at a }}} outside every block
ParseUnmatchedClose ==
    /\ pc = "parse"
    /\ BoundaryIndex(in) # 0
    /\ BoundaryString(in) = CloseTok
    /\ Len(accumulated) = 0
    /\ out' = out \o BeforeBoundary(in) \o UnmatchedBoundary
    /\ in' = SplitAfterBoundary(in)
    /\ step' = [kind |-> "unmatched", prevIn |-> in, prevAcc |-> accumulated, prevOut |-> out]
    /\ UNCHANGED <<doc, pc, accumulated, errLogged, routed, final, blocks>>
    /\ UNCHANGED linkVars
    /\ UNCHANGED importVars

\* parseCodeBlocks with no boundary left in the remaining text
ParseEnd ==
    /\ pc = "parse"
    /\ BoundaryIndex(in) = 0
    /\ errLogged' = UnclosedError(accumulated)
    /\ out' = out \o in
    /\ in' = <<>>
    /\ pc' = "route"
    /\ step' = [kind |-> "end", prevIn |-> in, prevAcc |-> accumulated, prevOut |-> out]
    /\ UNCHANGED <<doc, accumulated, routed, final, blocks>>
    /\ UNCHANGED linkVars
    /\ UNCHANGED importVars

\* convert(): conversions on the text that is not in a code block
Route ==
    /\ pc = "route"
    /\ routed' = convertNonCodeBlocks(out)
    /\ pc' = "undisguise"
    /\ UNCHANGED <<doc, in, accumulated, out, errLogged, final, step, blocks>>
    /\ UNCHANGED linkVars
    /\ UNCHANGED importVars

\* convert(): replace the custom brackets by markdown code block boundaries
Undisguise ==
    /\ pc = "undisguise"
    /\ final' = undisguiseCodeBlocks(routed)
    /\ pc' = "done"
    /\ UNCHANGED <<doc, in, accumulated, out, errLogged, routed, step, blocks>>
    /\ UNCHANGED linkVars
    /\ UNCHANGED importVars

Next ==
    \/ ConvertEOL
    \/ ParseOpen
    \/ ParseClose
    \/ ParseUnmatchedClose
    \/ ParseEnd
    \/ Route
    \/ Undisguise

\* ------------------------------------------------------ convertLinks steps

\* no call of convert() is modelled
NoConvert ==
    /\ doc = <<>>
    /\ pc = "none"
    /\ in = <<>>
    /\ accumulated = <<>>
    /\ out = <<>>
    /\ errLogged = FALSE
    /\ routed = <<>>
    /\ final = <<>>
    /\ step = NoStep
    /\ blocks = <<>>

codeVars == <<doc, pc, in, accumulated, out, errLogged, routed, final, step, blocks>>

\* TicketConvert(ticket, text) or WikiConvert(page, text) reaches
\* convertLinks with the text, a context is <<ticket, page>>
StartLinks(texts, contexts, envs) ==
    /\ NoConvert
    /\ NoImport
    /\ linkPc = "bracket"
    /\ grammar = 1
    /\ linkIn \in texts
    /\ linkText = linkIn
    /\ \E c \in contexts : ticketID = c[1] /\ wikiPage = c[2]
    /\ env \in envs
    /\ copied = <<>>
    /\ warnings = 0
    /\ resolutions = <<>>

\* phase 1
ConvertBracketted ==
    /\ linkPc = "bracket"
    /\ linkText' = convertBrackettedTracLinks(wikiPage, linkText)
    /\ linkPc' = "resolve"
    /\ UNCHANGED <<grammar, linkIn, ticketID, wikiPage, env, copied, warnings, resolutions>>
    /\ UNCHANGED codeVars
    /\ UNCHANGED importVars

\* phase 2: the next grammar's ReplaceAllStringFunc
ResolveLinks ==
    /\ linkPc = "resolve"
    /\ \E rs \in {Resolutions(Grammars[grammar], env, ticketID, wikiPage, linkText)} :
           /\ linkText' = ResolveGrammar(Grammars[grammar], env, ticketID, wikiPage, linkText)
           /\ resolutions' = resolutions \o rs
           /\ warnings' = warnings + Len(SelectSeq(rs, LAMBDA r : r.warn))
           /\ copied' = copied \o
                  SelectSeq([k \in 1..Len(rs) |-> rs[k].copy], LAMBDA c : c # <<>>)
    /\ IF grammar = Len(Grammars)
       THEN linkPc' = "unmark" /\ grammar' = grammar
       ELSE linkPc' = linkPc /\ grammar' = grammar + 1
    /\ UNCHANGED <<linkIn, ticketID, wikiPage, env>>
    /\ UNCHANGED codeVars
    /\ UNCHANGED importVars

\* phase 3
UnmarkLinks ==
    /\ linkPc = "unmark"
    /\ linkText' = unmarkLinks(linkText)
    /\ linkPc' = "done"
    /\ UNCHANGED <<grammar, linkIn, ticketID, wikiPage, env, copied, warnings, resolutions>>
    /\ UNCHANGED codeVars
    /\ UNCHANGED importVars

NextLinks ==
    \/ ConvertBracketted
    \/ ResolveLinks
    \/ UnmarkLinks

\* ----------------------------------------------------------------- inputs

\* the texts made of at most n of the given pieces
Texts(pieces, n) == {Cat(f) : f \in UNION {[1..k -> pieces] : k \in 0..n}}

MaxPieces == 4

Pieces ==
    { OpenTok,
      CloseTok,
      OpenTok \o HashBang \o <<"d", "i", "v", "\n">>,
      OpenTok \o HashBang \o <<"x">>,
      <<"\n">>,
      <<"\r", "\n">> }

Init == Start(Texts(Pieces, MaxPieces))

Spec == Init /\ [][Next]_vars

\* the texts with one opening that may carry a processor line, among at
\* most MaxContext other pieces
MaxContext == 3

ContextPieces ==
    { <<"a", "\n", "{", "{", "{", "\n">>,
      <<"}", "}", "}", "\n">>,
      <<"[", "[", "T", "O", "C", "]", "]", "\n">>,
      <<"a">> }

ProcessorTokens ==
    { <<"p", "y">>,
      <<"c", "+", "+">>,
      <<"s", "h", " ">>,
      <<"p", "y", "t", "h", "o", "n">>,
      <<"x", " ", "y">>,
      CommitTicketReference \o <<" ", "r">>,
      <<"d", "i", "v">>,
      <<"d", "i", "v", " ", "i", "d", "=", "1">>,
      <<"t", "d">>,
      <<"t", "r", "a", "c", "k">>,
      <<"t", "a", "b", "l", "e">>,
      <<"s", "p", "a", "n">>,
      <<"c", "o", "m", "m", "e", "n", "t">>,
      <<"h", "t", "m", "l", "c", "o", "m", "m", "e", "n", "t">>,
      <<"h", "t", "m", "l">> }

\* {{{#!<token> on one line, {{{ with #!<token> on the next line, and {{{
\* with no processor
Openings ==
    {OpenTok \o HashBang \o t \o <<"\n">> : t \in ProcessorTokens}
    \cup {OpenTok \o <<"\n">> \o HashBang \o t \o <<"\n">> :
            t \in { <<"c", "+", "+">>, <<"x", " ", "y">> }}
    \cup {OpenTok \o <<"\n">>}

ProcessorTexts ==
    LET around == UNION {[1..k -> ContextPieces] : k \in 0..MaxContext}
    IN  {Cat(x[1]) \o x[2] \o Cat(x[3]) :
            x \in {y \in around \X Openings \X around :
                      Len(y[1]) + Len(y[3]) <= MaxContext}}

InitProc == Start(ProcessorTexts)

SpecProc == InitProc /\ [][Next]_vars

\* the texts with blocks opened and closed within a line
MaxLinePieces == 4

LinePieces ==
    { OpenTok,
      CloseTok,
      <<"a">>,
      <<"\n">>,
      <<"\r", "\n">>,
      OpenTok \o HashBang \o <<"p", "y", "\n">> }

InitLine == Start(Texts(LinePieces, MaxLinePieces))

SpecLine == InitLine /\ [][Next]_vars

\* ---- the inputs of convertLinks

\* what the accessors hold when every lookup finds its object: tickets 5
\* and 7 are issues 50 and 70; comment 3 of ticket 5 was made at time 100,
\* when issue 50 got comment 8 of type 1 and comment 9 of type 0; comment 3
\* of ticket 7 was made at time 140, when issue 70 got comment 4; comment 4
\* of ticket 7 was made at time 160 and issue 70 has no comment of that
\* time; m1 is milestone 2; f.t is attached to issue 50 as uu and to issue
\* 70 as vv
Found ==
    [issues       |-> [t \in {5, 7} |-> 10 * t],
     commentTimes |-> [c \in {<<5, 3>>, <<7, 3>>, <<7, 4>>} |-> 20 * (c[1] + c[2] - 3)],
     comments     |-> {[id |-> 8, issue |-> 50, time |-> 100, type |-> 1],
                       [id |-> 9, issue |-> 50, time |-> 100, type |-> 0],
                       [id |-> 4, issue |-> 70, time |-> 140, type |-> 0]},
     milestones   |-> [m \in {<<"m", "1">>} |-> 2],
     uuids        |-> [a \in {<<50, <<"f", ".", "t">>>>, <<70, <<"f", ".", "t">>>>} |->
                          IF a[1] = 50 THEN <<"u", "u">> ELSE <<"v", "v">>],
     errors       |-> {}]

\* TicketConvert(5, text)
OfTicket == <<5, <<>>>>

\* WikiConvert("Pg", text)
OfWikiPage == <<NullID, <<"P", "g">>>>

MaxLinkPieces == 2

\* bracketed links with a text, an image, http links and bare references
LinkPieces ==
    {<<"[", "[", "t", "i", "c", "k", "e", "t", ":", "5", "|", "t", "x", "t", "]", "]">>,
     <<"[", "t", "i", "c", "k", "e", "t", ":", "5", " ", "t", "x", "t", "]">>,
     <<"[", "w", "i", "k", "i", ":", "A", "b", " ", "t", "i", "c", "k", "e", "t", ":", "7", "]">>,
     <<"[", "[", "h", "t", "t", "p", ":", "/", "/", "u", "@", "h", "/", "a", "|", "t", "x", "t", "]", "]">>,
     <<"[", "[", "I", "m", "a", "g", "e", "(", "a", ".", "p", "n", "g", ")", "]", "]">>,
     <<"h", "t", "t", "p", ":", "/", "/", "u", "@", "h", "/", "a">>,
     <<"h", "t", "t", "p", ":", "/", "/", "h", "/", "t", "i", "c", "k", "e", "t", ":", "5">>,
     <<"h", "t", "t", "p", ":", "/", "/", "h", "/", "c", "o", "m", "m", "e", "n", "t", ":", "3">>,
     <<"h", "t", "t", "p", ":", "/", "/", "h", "/", "a">>,
     <<"t", "i", "c", "k", "e", "t", ":", "5">>,
     <<"w", "i", "k", "i", ":", "A", "b">>,
     <<"F", "o", "o", "B", "a", "r">>,
     <<" ">>,
     <<"a">>}

InitLinks == StartLinks(Texts(LinkPieces, MaxLinkPieces), {OfTicket}, {Found})

SpecLinks == InitLinks /\ [][NextLinks]_vars

\* WikiConvert("", text): neither a ticket nor a page
OfNoPage == <<NullID, <<>>>>

\* the calls of the accessors that return an error in one scenario: the
\* first lookup of a resolver, the second one, or the last call of each
\* resolver
Calls ==
    {{"GetIssueID"},
     {"GetTicketCommentTime"},
     {"GetIssueCommentIDsByTime", "GetMilestoneID", "GetIssueAttachmentUUID",
      "CopyFileToWiki"}}

\* a context, and what the accessors hold and which of their calls fail
Scenarios ==
    {<<c, Found>> : c \in {OfTicket, OfWikiPage, OfNoPage}}
    \cup {<<OfTicket, [Found EXCEPT !.errors = calls]>> : calls \in Calls}

MaxRefPieces == 2

\* references after a space: found and not found, with and without the
\* suffix that names their ticket or page, and one whose number is no int64
RefPieces ==
    {<<" ", "t", "i", "c", "k", "e", "t", ":", "9", "9", "9", "9", "9", "9", "9", "9", "9",
       "9", "9", "9", "9", "9", "9", "9", "9", "9", "9", "9">>,
     <<" ", "m", "i", "l", "e", "s", "t", "o", "n", "e", ":", "m", "1">>,
     <<" ", "c", "o", "m", "m", "e", "n", "t", ":", "3">>,
     <<" ", "c", "o", "m", "m", "e", "n", "t", ":", "3", ":", "t", "i", "c", "k", "e", "t",
       ":", "7">>,
     <<" ", "c", "o", "m", "m", "e", "n", "t", ":", "3", ":", "t", "i", "c", "k", "e", "t",
       ":", "6">>,
     <<" ", "c", "o", "m", "m", "e", "n", "t", ":", "4">>,
     <<" ", "c", "o", "m", "m", "e", "n", "t", ":", "4", ":", "t", "i", "c", "k", "e", "t",
       ":", "7">>,
     <<" ", "a", "t", "t", "a", "c", "h", "m", "e", "n", "t", ":", "f", ".", "t">>,
     <<" ", "a", "t", "t", "a", "c", "h", "m", "e", "n", "t", ":", "f", ".", "t", ":", "t",
       "i", "c", "k", "e", "t", ":", "7">>,
     <<" ", "a", "t", "t", "a", "c", "h", "m", "e", "n", "t", ":", "g", ".", "t", ":", "t",
       "i", "c", "k", "e", "t", ":", "5">>,
     <<" ", "a", "t", "t", "a", "c", "h", "m", "e", "n", "t", ":", "f", ".", "t", ":", "t",
       "i", "c", "k", "e", "t", ":", "6">>,
     <<" ", "a", "t", "t", "a", "c", "h", "m", "e", "n", "t", ":", "f", ".", "t", ":", "w",
       "i", "k", "i", ":", "X", "y">>,
     <<" ", "h", "t", "d", "o", "c", "s", ":", "a", ".", "b">>}

InitResolve ==
    \E sc \in Scenarios : StartLinks(Texts(RefPieces, MaxRefPieces), {sc[1]}, {sc[2]})

SpecResolve == InitResolve /\ [][NextLinks]_vars

\* the texts that open a plain block on a line of its own after a line of
\* text, followed by at most MaxNestPieces openings, closings and lines
MaxNestPieces == 4

NestPieces ==
    { <<"{", "{", "{", "\n">>,
      <<"}", "}", "}", "\n">>,
      <<"[", "[", "T", "O", "C", "]", "]", "\n">>,
      <<"a">> }

InitNest ==
    Start({<<"a", "\n", "{", "{", "{", "\n">> \o t : t \in Texts(NestPieces, MaxNestPieces)})

SpecNest == InitNest /\ [][Next]_vars

\* ---------------------------------------------- trac accessor: ticket changes

\* the order of the list is the order of the initial changes
initialTicketChangeFields ==
    <<"component", "priority", "resolution", "severity", "type", "version", "milestone",
      "owner">>

recordedTicketChangeFields == initialTicketChangeFields \o <<"status", "summary">>

\* CAST(time*1e-6 AS int8): the seconds of a time in microseconds
Seconds(time) == time \div 1000000

\* sqlForFirstChangeToEachField: one row for each listed field that has a
\* recorded change, GROUP BY field with MIN of the time in seconds; SQLite
\* takes the bare column oldvalue from a row that holds the minimum, any of
\* them when several rows do. The result maps each such field to that row.
sqlForFirstChangeToEachField ==
    LET listed == {initialTicketChangeFields[k] : k \in 1..Len(initialTicketChangeFields)}
        fields == {r.field : r \in ticketChange} \cap listed
    IN  {first \in [fields -> ticketChange] :
            \A f \in fields :
                /\ first[f].field = f
                /\ \A r \in ticketChange :
                       r.field = f => Seconds(first[f].time) <= Seconds(r.time)}

\* the rows of initialValueSQL: for each field in the order of the list,
\* the source 1 row of its first change when there is one, then the source
\* 2 row of the ticket table
initialValueSQL(first) ==
    Cat([k \in 1..Len(initialTicketChangeFields) |->
            LET f == initialTicketChangeFields[k]
            IN  (IF f \in DOMAIN first
                 THEN <<[source |-> 1, field |-> f, value |-> first[f].old]>>
                 ELSE <<>>)
                \o <<[source |-> 2, field |-> f, value |-> tracTicket.values[f]]>>])

\* the elements of a sequence whose indexes are in a set, in their order
Keep(s, idx) ==
    [n \in 1..Cardinality(idx) |->
        s[CHOOSE k \in idx : Cardinality({j \in idx : j <= k}) = n]]

\* handlerFn is called with each change in turn until one call fails
Handle(calls) ==
    LET done == Len(changes)
    IN  IF handlerFails \in (done + 1)..(done + Len(calls))
        THEN /\ changes' = changes \o SubSeq(calls, 1, handlerFails - done)
             /\ changesPc' = "failed"
        ELSE /\ changes' = changes \o calls
             /\ changesPc' = IF changesPc = "initial" THEN "recorded" ELSE "done"

\* the loop over the rows: a source 2 row is skipped when a source 1 row of
\* its field was met, a row with an empty value gives no change
getInitialTicketChanges ==
    /\ changesPc = "initial"
    /\ \E first \in sqlForFirstChangeToEachField :
       \E rows \in {initialValueSQL(first)} :
           Handle(Keep([k \in 1..Len(rows) |->
                           [field  |-> rows[k].field,
                            author |-> tracTicket.reporter,
                            old    |-> "",
                            new    |-> rows[k].value,
                            time   |-> Seconds(tracTicket.time)]],
                       {k \in 1..Len(rows) :
                           /\ ~(/\ rows[k].source = 2
                                /\ \E j \in 1..(k - 1) :
                                       rows[j].source = 1 /\ rows[j].field = rows[k].field)
                           /\ rows[k].value # ""}))
    /\ UNCHANGED <<tracTicket, ticketChange, handlerFails>>
    /\ UNCHANGED <<codeVars, linkVars, issueComment, ticketRun, importRun>>

\* sqlForFieldOrdering: the index of a listed field; NULL, which SQLite
\* sorts first, for the comment field
sqlForFieldOrdering(fields, f) ==
    IF \E k \in 1..Len(fields) : fields[k] = f
    THEN (CHOOSE k \in 1..Len(fields) : fields[k] = f) - 1
    ELSE 0 - 1

\* the comments that are not blank and the changes of the listed fields,
\* ORDER BY the time column, in microseconds, then by the order of the fields
getRecordedTicketChanges ==
    /\ changesPc = "recorded"
    /\ LET listed == {recordedTicketChangeFields[k] : k \in 1..Len(recordedTicketChangeFields)}
           rows   == {r \in ticketChange :
                         \/ r.field = "comment" /\ r.new \notin {"", " "}
                         \/ r.field \in listed}
           key(r) == <<r.time, sqlForFieldOrdering(recordedTicketChangeFields, r.field)>>
       IN  \E sorted \in [1..Cardinality(rows) -> rows] :
               /\ \A a, b \in DOMAIN sorted :
                      a < b => /\ sorted[a] # sorted[b]
                               /\ \/ key(sorted[a])[1] < key(sorted[b])[1]
                                  \/ /\ key(sorted[a])[1] = key(sorted[b])[1]
                                     /\ key(sorted[a])[2] <= key(sorted[b])[2]
               /\ Handle([k \in DOMAIN sorted |->
                             [field  |-> sorted[k].field,
                              author |-> sorted[k].author,
                              old    |-> sorted[k].old,
                              new    |-> sorted[k].new,
                              time   |-> Seconds(sorted[k].time)]])
    /\ UNCHANGED <<tracTicket, ticketChange, handlerFails>>
    /\ UNCHANGED <<codeVars, linkVars, issueComment, ticketRun, importRun>>

\* GetTicketChanges: the initial changes, then the recorded ones
GetTicketChanges ==
    \/ getInitialTicketChanges
    \/ getRecordedTicketChanges

MaxChanges == 2

\* recorded changes of two of the listed fields at three times, two of
\* them in the same second, a change of the status and comments
ChangeRows ==
    [field : {"priority", "owner"}, time : {2000000, 2400000, 3000000},
     old : {"", "x", "y"}, new : {"n"}, author : {"au"}]
    \cup [field : {"status"}, time : {2000000}, old : {"x"}, new : {"n"}, author : {"au"}]
    \cup [field : {"comment"}, time : {2000000, 3000000}, old : {"1"}, new : {" ", "c"},
          author : {"au"}]

\* a ticket created in second 1, with or without a priority and an owner,
\* and at most MaxChanges rows of ticket_change with distinct field and time
InitChanges ==
    /\ NoConvert
    /\ NoLinks
    /\ NoComments
    /\ NoTickets
    /\ NoRun
    /\ tracTicket \in
           {[reporter |-> "rep", time |-> 1500000,
             values |-> [f \in {initialTicketChangeFields[k] :
                                    k \in 1..Len(initialTicketChangeFields)} |->
                            IF f = "priority" THEN p ELSE IF f = "owner" THEN o ELSE ""]] :
               p \in {"", "p"}, o \in {"", "o"}}
    /\ ticketChange \in
           {rs \in SUBSET ChangeRows :
               /\ Cardinality(rs) <= MaxChanges
               /\ \A a, b \in rs : (a.field = b.field /\ a.time = b.time) => a = b}
    /\ handlerFails \in 0..2
    /\ changes = <<>>
    /\ changesPc = "initial"

SpecChanges == InitChanges /\ [][GetTicketChanges]_vars

\* ------------------------------------------- gitea accessor: issue comments

\* findIssueComment: the ids of the comments of the issue with the given
\* created_unix and type
findIssueComment(table, issueID, createdTime, type) ==
    {r.id : r \in {q \in table : /\ q.issue = issueID
                                 /\ q.created = createdTime
                                 /\ q.type = type}}

\* the row written for a comment: CreatedTime is set from Time
CommentRow(id, issueID, comment) ==
    [id |-> id, issue |-> issueID, type |-> comment.type, created |-> comment.time,
     time |-> comment.time, text |-> comment.text]

\* insertIssueComment: db.Create gives the row the next id
insertIssueComment(table, issueID, comment) ==
    table \cup {CommentRow(1 + Cardinality(table), issueID, comment)}

\* updateIssueComment: db.Save replaces the row of the id
updateIssueComment(table, id, issueID, comment) ==
    {r \in table : r.id # id} \cup {CommentRow(id, issueID, comment)}

MaxCalls == 2

\* the comments AddIssueComment is given: a comment or a change of status,
\* with a time; CreatedTime is 0 when the caller did not set it
Comments ==
    [type : {0, 1}, time : {100, 200}, createdTime : {0, 100, 200}, text : {"a", "b"}]

\* AddIssueComment(issueID, comment); fails is the call of the database
\* that returns an error
AddIssueComment ==
    /\ issueComment.pc = "call"
    /\ issueComment.calls < MaxCalls
    /\ \E issueID \in {1, 2}, comment \in {c \in Comments : c.createdTime \in {0, c.time}},
          fails \in {"none", "find", "write"} :
       \E found \in {findIssueComment(issueComment.table, issueID, comment.createdTime,
                                      comment.type)} :
       \E id \in (IF found = {} THEN {NullID} ELSE found) :
           issueComment' =
               [issueComment EXCEPT
                   !.calls = @ + 1,
                   !.before = issueComment.table,
                   !.issueID = issueID,
                   !.comment = comment,
                   !.failed = \/ fails = "find"
                              \/ fails = "write" /\ (id = NullID \/ issueComment.overwrite),
                   !.id = IF fails = "find" THEN NullID
                          ELSE IF id = NullID
                          THEN (IF fails = "write" THEN NullID
                                ELSE 1 + Cardinality(issueComment.table))
                          ELSE IF issueComment.overwrite /\ fails = "write" THEN NullID
                          ELSE id,
                   !.table = IF fails # "none" THEN @
                             ELSE IF id = NullID THEN insertIssueComment(@, issueID, comment)
                             ELSE IF issueComment.overwrite
                             THEN updateIssueComment(@, id, issueID, comment)
                             ELSE @]
    /\ UNCHANGED <<codeVars, linkVars>>
    /\ UNCHANGED <<tracTicket, ticketChange, handlerFails, changes, changesPc, ticketRun,
                   importRun>>

\* an empty comment table, with or without the overwrite option
InitComments ==
    /\ NoConvert
    /\ NoLinks
    /\ NoChanges
    /\ NoTickets
    /\ NoRun
    /\ issueComment \in
           {[pc |-> "call", overwrite |-> o, table |-> {}, calls |-> 0, before |-> {},
             issueID |-> 0, comment |-> [type |-> 0, time |-> 0, createdTime |-> 0,
                                         text |-> ""],
             failed |-> FALSE, id |-> NullID] : o \in BOOLEAN}

SpecComments == InitComments /\ [][AddIssueComment]_vars

\* --------------------------------------------------- main: performImport

\* importData: the steps in the order of their calls
importData ==
    <<"ImportFullNames", "ImportComponents", "ImportPriorities", "ImportResolutions",
      "ImportSeverities", "ImportTypes", "ImportKeywords", "ImportVersions",
      "ImportMilestones", "ImportTickets">>

\* a call fails when it is the failing call of the run: fails names an
\* operation and which of its calls returns an error
Fails(op, at) == importRun.fails = [op |-> op, at |-> at]

\* if err != nil { dataImporter.RollbackImport(); return err }, as if the
\* error were not looked at
AfterStepUnchecked(err, next) == next

\* if err != nil { dataImporter.RollbackImport(); return err }
AfterStep(err, next) == IF err THEN "rollback" ELSE next

\* importData, one step at a time: the first error is returned
importDataStep ==
    /\ importRun.pc = "data"
    /\ \E op \in {importData[importRun.step]} :
           importRun' =
               [importRun EXCEPT
                   !.calls = Append(@, op),
                   !.stepError = IF Fails(op, 1) THEN op ELSE @,
                   !.step = @ + 1,
                   !.pc = AfterStep(Fails(op, 1),
                                    IF importRun.step < Len(importData) THEN "data"
                                    ELSE IF importRun.dbOnly THEN "commit" ELSE "wiki")]
    /\ UNCHANGED <<codeVars, linkVars>>
    /\ UNCHANGED <<tracTicket, ticketChange, handlerFails, changes, changesPc, issueComment,
                   ticketRun>>

\* GetWikiAttachments with the handler of importWikiAttachments: one call of
\* CopyFileToWiki for each attachment, up to the one that fails
importWikiAttachments ==
    [k \in 1..(IF \E at \in 1..importRun.attachments : Fails("CopyFileToWiki", at)
               THEN importRun.fails.at ELSE importRun.attachments) |-> "CopyFileToWiki"]

\* GetWikiPages with the handler of importWikiPages: each page is written,
\* and committed when it was not present, up to the call that fails
importWikiPages ==
    LET n    == Len(importRun.pages)
        last == IF importRun.fails.op \in {"WriteWikiPage", "CommitWikiToRepo"}
                   /\ importRun.fails.at \in 1..n
                THEN importRun.fails.at ELSE n
    IN  Cat([k \in 1..last |->
                IF Fails("WriteWikiPage", k) \/ importRun.pages[k] = "present"
                THEN <<"WriteWikiPage">>
                ELSE <<"WriteWikiPage", "CommitWikiToRepo">>])

\* a copy of an attachment, a write or a commit of a page failed
WikiCallFailed ==
    \/ \E at \in 1..importRun.attachments : Fails("CopyFileToWiki", at)
    \/ \E at \in 1..Len(importRun.pages) :
           \/ Fails("WriteWikiPage", at)
           \/ Fails("CommitWikiToRepo", at) /\ importRun.pages[at] = "new"

\* importer.ImportWiki: only the error of CloneWiki is returned, what the
\* two iterations return is dropped
ImportWiki ==
    /\ importRun.pc = "wiki"
    /\ importRun' =
           [importRun EXCEPT
               !.calls = @ \o <<"ImportWiki", "CloneWiki">>
                           \o (IF Fails("CloneWiki", 1) THEN <<>>
                               ELSE importWikiAttachments \o importWikiPages),
               !.wikiFailed = ~Fails("CloneWiki", 1) /\ WikiCallFailed,
               !.stepError = IF Fails("CloneWiki", 1) THEN "ImportWiki" ELSE @,
               !.pc = AfterStep(Fails("CloneWiki", 1), "commit")]
    /\ UNCHANGED <<codeVars, linkVars>>
    /\ UNCHANGED <<tracTicket, ticketChange, handlerFails, changes, changesPc, issueComment,
                   ticketRun>>

\* performImport: return dataImporter.CommitImport()
CommitImport ==
    /\ importRun.pc = "commit"
    /\ importRun' = [importRun EXCEPT
                        !.calls = Append(@, "CommitImport"),
                        !.result = IF Fails("CommitImport", 1) THEN "error" ELSE "nil",
                        !.pc = "done"]
    /\ UNCHANGED <<codeVars, linkVars>>
    /\ UNCHANGED <<tracTicket, ticketChange, handlerFails, changes, changesPc, issueComment,
                   ticketRun>>

\* performImport: dataImporter.RollbackImport(); return err
RollbackImport ==
    /\ importRun.pc = "rollback"
    /\ importRun' = [importRun EXCEPT
                        !.calls = Append(@, "RollbackImport"),
                        !.result = "error",
                        !.pc = "done"]
    /\ UNCHANGED <<codeVars, linkVars>>
    /\ UNCHANGED <<tracTicket, ticketChange, handlerFails, changes, changesPc, issueComment,
                   ticketRun>>

\* wiki.ImportWiki(push): a page that has a commit is skipped, the result
\* of WriteWikiPage is not looked at, what the two iterations return is
\* dropped, and the wiki is pushed when push is set
WikiImportWiki ==
    /\ importRun.pc = "wiki.ImportWiki"
    /\ \E n \in {IF \E at \in 1..Len(importRun.pages) :
                        Fails("CommitWiki", at) /\ importRun.pages[at] = "new"
                 THEN importRun.fails.at ELSE Len(importRun.pages)} :
           importRun' =
               [importRun EXCEPT
                   !.calls = @ \o <<"CloneWiki">>
                               \o (IF Fails("CloneWiki", 1) THEN <<>>
                                   ELSE importWikiAttachments
                                        \o Cat([k \in 1..n |->
                                                   IF importRun.pages[k] = "present" THEN <<>>
                                                   ELSE <<"WriteWikiPage", "CommitWiki">>])
                                        \o (IF importRun.push THEN <<"PushWiki">> ELSE <<>>)),
                   !.wikiFailed =
                       /\ ~Fails("CloneWiki", 1)
                       /\ \/ \E at \in 1..importRun.attachments : Fails("CopyFileToWiki", at)
                          \/ \E at \in 1..Len(importRun.pages) :
                                 /\ importRun.pages[at] = "new"
                                 /\ Fails("WriteWikiPage", at) \/ Fails("CommitWiki", at),
                   !.result = IF \/ Fails("CloneWiki", 1)
                                 \/ importRun.push /\ Fails("PushWiki", 1)
                              THEN "error" ELSE "nil",
                   !.pc = "done"]
    /\ UNCHANGED <<codeVars, linkVars>>
    /\ UNCHANGED <<tracTicket, ticketChange, handlerFails, changes, changesPc, issueComment,
                   ticketRun>>

NextImport ==
    \/ importDataStep
    \/ ImportWiki
    \/ CommitImport
    \/ RollbackImport
    \/ WikiImportWiki

MaxWiki == 2

\* the calls that may fail, at most one in a run
FailingCalls ==
    {[op |-> "none", at |-> 0]}
    \cup [op : {importData[k] : k \in 1..Len(importData)}
               \cup {"CloneWiki", "CommitImport", "PushWiki"}, at : {1}]
    \cup [op : {"CopyFileToWiki", "WriteWikiPage", "CommitWikiToRepo", "CommitWiki"},
          at : 1..MaxWiki]

\* a run of performImport with the options db-only and wiki-only, which
\* parseArgs refuses together, or a call of wiki.ImportWiki; the wiki has
\* at most MaxWiki attachments and MaxWiki pages, present or not in the
\* wiki of gitea
InitImport ==
    /\ NoConvert
    /\ NoLinks
    /\ NoChanges
    /\ NoComments
    /\ NoTickets
    /\ importRun \in
           {[pc |-> IF e = "wiki.ImportWiki" THEN e ELSE IF o.wikiOnly THEN "wiki" ELSE "data",
             entry |-> e, dbOnly |-> o.dbOnly, wikiOnly |-> o.wikiOnly, push |-> o.push,
             fails |-> f, attachments |-> a, pages |-> p, step |-> 1, calls |-> <<>>,
             stepError |-> "", wikiFailed |-> FALSE, result |-> ""] :
               e \in {"performImport", "wiki.ImportWiki"},
               o \in {x \in [dbOnly : BOOLEAN, wikiOnly : BOOLEAN, push : BOOLEAN] :
                         ~(x.dbOnly /\ x.wikiOnly)},
               f \in FailingCalls,
               a \in 0..MaxWiki,
               p \in UNION {[1..n -> {"new", "present"}] : n \in 0..MaxWiki}}

SpecImport == InitImport /\ [][NextImport]_vars

\* ------------------------------------------------- importer: ImportTickets

\* the handler ImportTickets gives to GetTickets: its steps for one ticket,
\* with the description updated before the attachments and the changes
ticketStepsDescriptionEarly ==
    <<"importTicket", "UpdateIssueDescription", "importTicketLabel",
      "importTicketAttachments", "importTicketChanges", "SetIssueClosedTime",
      "SetIssueUpdateTime", "UpdateIssueCommentCount", "UpdateIssueIndex">>

\* the handler ImportTickets gives to GetTickets: its steps for one ticket
ticketSteps ==
    <<"importTicket", "importTicketLabel", "importTicketAttachments", "importTicketChanges",
      "SetIssueClosedTime", "SetIssueUpdateTime", "UpdateIssueCommentCount",
      "UpdateIssueIndex", "UpdateIssueDescription">>

\* importTicketAttachments: lastUpdate starts as the creation time of the
\* ticket; after an attachment that was created (uuid != ""), it becomes
\* the time of the attachment if lastUpdate > time
RECURSIVE importTicketAttachments(_, _)
importTicketAttachments(created, attachments) ==
    IF attachments = <<>> THEN created
    ELSE LET lastUpdate == importTicketAttachments(created,
                               SubSeq(attachments, 1, Len(attachments) - 1))
             attachment == attachments[Len(attachments)]
         IN  IF attachment.created /\ lastUpdate > attachment.time
             THEN attachment.time
             ELSE lastUpdate

\* importTicketChanges: the latest of lastUpdate and the times of the changes
importTicketChanges(lastUpdate, times) ==
    CHOOSE m \in {lastUpdate} \cup {times[k] : k \in 1..Len(times)} :
        \A k \in 1..Len(times) : lastUpdate <= m /\ times[k] <= m

\* the calls of one step of the handler for a ticket
StepCalls(op, t, lastUpdate) ==
    LET call(name, time, text) == [op |-> name, ticket |-> t.id, time |-> time, text |-> text]
    IN  CASE op = "importTicket" ->
                 <<call("AddIssue", t.created, "")>>
                 \o (IF t.skipped THEN <<>> ELSE <<call("AddIssueParticipant", 0, "")>>)
          [] op = "importTicketLabel" -> [k \in 1..7 |-> call("importTicketLabel", 0, "")]
          [] op = "importTicketAttachments" ->
                 [k \in 1..Len(t.attachments) |->
                     call("importTicketAttachment", t.attachments[k].time, "")]
          [] op = "importTicketChanges" ->
                 [k \in 1..Len(t.changes) |-> call("importTicketChange", t.changes[k], "")]
          [] op = "SetIssueClosedTime" ->
                 IF t.closed THEN <<call(op, lastUpdate, "")>> ELSE <<>>
          [] op = "SetIssueUpdateTime" -> <<call(op, lastUpdate, "")>>
          [] op = "UpdateIssueDescription" ->
                 <<call("TicketConvert", 0, t.description),
                   call(op, 0, "md:" \o t.description)>>
          [] OTHER -> <<call(op, 0, "")>>

\* one step of the handler; a step that returns an error ends ImportTickets,
\* and a ticket for which AddIssue returns gitea.NullID is left at once
TicketStep ==
    /\ ticketRun.pc = "ticket"
    /\ \E op \in {ticketSteps[ticketRun.step]}, t \in {ticketRun.tickets[ticketRun.at]} :
       \E failed \in {ticketRun.fails = [op |-> op, ticket |-> ticketRun.at]} :
       \E last \in {failed \/ ticketRun.step = Len(ticketSteps)
                           \/ (op = "importTicket" /\ t.skipped)} :
           ticketRun' =
               [ticketRun EXCEPT
                   !.calls = @ \o StepCalls(op, t, ticketRun.lastUpdate),
                   !.lastUpdate =
                       IF op = "importTicketAttachments"
                       THEN importTicketAttachments(t.created, t.attachments)
                       ELSE IF op = "importTicketChanges"
                       THEN importTicketChanges(@, t.changes)
                       ELSE @,
                   !.step = IF last THEN 1 ELSE @ + 1,
                   !.at = IF last /\ ~failed THEN @ + 1 ELSE @,
                   !.result = IF failed THEN "error" ELSE @,
                   !.pc = IF failed THEN "done"
                          ELSE IF last /\ ticketRun.at = Len(ticketRun.tickets) THEN "counts"
                          ELSE "ticket"]
    /\ UNCHANGED <<codeVars, linkVars>>
    /\ UNCHANGED <<tracTicket, ticketChange, handlerFails, changes, changesPc, issueComment,
                   importRun>>

\* ImportTickets after the last ticket: the counts of issues are updated,
\* up to the call that returns an error
UpdateIssueCounts ==
    /\ ticketRun.pc = "counts"
    /\ \E ops \in {<<"UpdateLabelIssueCounts", "UpdateMilestoneIssueCounts",
                      "UpdateRepoIssueCounts">>} :
       \E failed \in {\E k \in 1..3 : ticketRun.fails = [op |-> ops[k], ticket |-> 0]} :
           ticketRun' =
               [ticketRun EXCEPT
                   !.calls = @ \o [k \in 1..(IF failed
                                             THEN CHOOSE n \in 1..3 : ops[n] = ticketRun.fails.op
                                             ELSE 3) |->
                                     [op |-> ops[k], ticket |-> 0, time |-> 0, text |-> ""]],
                   !.result = IF failed THEN "error" ELSE "nil",
                   !.pc = "done"]
    /\ UNCHANGED <<codeVars, linkVars>>
    /\ UNCHANGED <<tracTicket, ticketChange, handlerFails, changes, changesPc, issueComment,
                   importRun>>

ImportTickets ==
    \/ TicketStep
    \/ UpdateIssueCounts

MaxAttachments == 1

\* the tickets: created at 100, open or closed, with at most MaxAttachments
\* attachments, created by the import or already there, and with changes,
\* all later than the ticket; or a ticket for which no issue is created
Tickets ==
    {[id |-> 1, created |-> 100, closed |-> c, skipped |-> FALSE, description |-> "d",
      attachments |-> a, changes |-> g] :
        c \in BOOLEAN,
        a \in UNION {[1..n -> [time : {150, 180}, created : BOOLEAN]] : n \in 0..MaxAttachments},
        g \in {<<>>, <<120>>, <<160, 200>>}}
    \cup {[id |-> 1, created |-> 100, closed |-> FALSE, skipped |-> TRUE, description |-> "d",
           attachments |-> <<>>, changes |-> <<>>]}

\* one ticket, or one ticket followed by a second one; at most one call
\* returns an error, a step of the handler of the first ticket or an update
\* of the counts
InitTickets ==
    /\ NoConvert
    /\ NoLinks
    /\ NoChanges
    /\ NoComments
    /\ NoRun
    /\ ticketRun \in
           {[pc |-> "ticket", tickets |-> ts, at |-> 1, step |-> 1, lastUpdate |-> 0,
             calls |-> <<>>, fails |-> f, result |-> ""] :
               ts \in {<<t>> : t \in Tickets}
                      \cup {<<t, [id |-> 2, created |-> 300, closed |-> TRUE, skipped |-> FALSE,
                                  description |-> "e",
                                  attachments |-> <<[time |-> 350, created |-> TRUE]>>,
                                  changes |-> <<320>>]>> : t \in Tickets},
               f \in {[op |-> "none", ticket |-> 0]}
                     \cup [op : {ticketSteps[k] : k \in 1..Len(ticketSteps)}, ticket : {1}]
                     \cup {[op |-> "UpdateMilestoneIssueCounts", ticket |-> 0]}}

SpecTickets == InitTickets /\ [][ImportTickets]_vars

\* ----------------------------------------------------- reading the claims

\* the text parseCodeBlocks receives
Normalized == convertEOL(doc)

Parsed == pc \in {"route", "undisguise", "done"}

Routed == pc \in {"undisguise", "done"}

\* the matches of nonCodeBlockRegexp handed to convertFn
Handed == NonCodeMatches(out, 1)

\* the text of out between the opening and the closing emitted for a block
InnerFirst(b) == b.openAt + Len(b.opener)

InnerLast(b) == b.closeAt - 1

Inner(b) == SubSeq(out, InnerFirst(b), InnerLast(b))

\* no character of first..last is handed to convertFn
NotHanded(first, last) ==
    first > last \/ \A k \in 1..Len(Handed) : Handed[k][2] < first \/ last < Handed[k][1]

\* all of first..last is handed to convertFn
AllHanded(first, last) ==
    first > last \/ \E k \in 1..Len(Handed) : Handed[k][1] <= first /\ last <= Handed[k][2]

\* a block opened with {@{@{ and closed with }@}@}
Disguised(b) == b.closed /\ HasPrefix(b.opener, DisguiseOpen) /\ b.closer = DisguiseClose

\* C1 (as claimed): convertNonCodeBlocks hands to the inline transforms only
\* text outside the disguised regions: no character between a {@{@{ and its
\* matching }@}@}, of a single-line block or of a multi-line block, belongs
\* to a segment handed to convertFn.
C1_DisguisedNeverHanded ==
    Routed =>
        \A k \in 1..Len(blocks) :
            Disguised(blocks[k]) =>
                NotHanded(blocks[k].openAt + Len(DisguiseOpen), InnerLast(blocks[k]))

\* the {{{ and }}} of a text, met from left to right, nest properly
RECURSIVE NestsFrom(_, _)
NestsFrom(s, depth) ==
    IF BoundaryIndex(s) = 0 THEN depth = 0
    ELSE IF BoundaryString(s) = OpenTok
         THEN NestsFrom(Drop(s, BoundaryIndex(s) + 2), depth + 1)
         ELSE depth > 0 /\ NestsFrom(Drop(s, BoundaryIndex(s) + 2), depth - 1)

ProperlyNested(s) == NestsFrom(s, 0)

\* the texts that follow each {{{ of a text
RECURSIVE AfterOpenings(_)
AfterOpenings(s) ==
    IF BoundaryIndex(s) = 0 THEN <<>>
    ELSE (IF BoundaryString(s) = OpenTok
          THEN <<Drop(s, BoundaryIndex(s) + 2)>> ELSE <<>>)
         \o AfterOpenings(Drop(s, BoundaryIndex(s) + 2))

\* the number of {{{ }}} pairs of a properly nested text
Pairs(s) == Len(AfterOpenings(s))

\* no #! processor line of the text holds a {{{ or a }}}
NoBoundaryOnProcessorLine(s) ==
    \A k \in 1..Len(AfterOpenings(s)) :
        BoundaryIndex(MatchedProcessor(AfterOpenings(s)[k])) = 0

\* the token of a processor line starts with an html tag name, comment,
\* htmlcomment or html
MarkupToken(tok) ==
    \/ \E t \in { <<"d", "i", "v">>, <<"t", "d">>, <<"t", "h">>, <<"t", "r">>,
                  <<"t", "a", "b", "l", "e">>, <<"c", "o", "m", "m", "e", "n", "t">>,
                  <<"h", "t", "m", "l">> } : HasPrefix(tok, t)

\* the pairs that are not opened with an html tag, comment or html processor
PlainPairs(s) ==
    Cardinality({k \in 1..Len(AfterOpenings(s)) :
                    ~MarkupToken(MatchedProcessor(AfterOpenings(s)[k]))})

\* C2 (as claimed): N properly nested {{{ }}} pairs give exactly N {@{@{ and
\* exactly N }@}@} sentinels and an empty stack at the end of the input.
C2_OneSentinelPairPerPair ==
    (Parsed /\ ProperlyNested(Normalized)) =>
        /\ Count(out, DisguiseOpen) = Pairs(Normalized)
        /\ Count(out, DisguiseClose) = Pairs(Normalized)
        /\ accumulated = <<>>

\* C2 (amended): for properly nested pairs none of whose processor lines
\* holds a boundary, the output has as many {@{@{ as }@}@} sentinels, one of
\* each for every pair that is not opened with an html tag, comment or html
\* processor, and the stack is empty at the end of the input.
C2_SentinelPairPerPlainPair ==
    (Parsed /\ ProperlyNested(Normalized) /\ NoBoundaryOnProcessorLine(Normalized)) =>
        /\ Count(out, DisguiseOpen) = PlainPairs(Normalized)
        /\ Count(out, DisguiseClose) = PlainPairs(Normalized)
        /\ accumulated = <<>>

C2_Witness ==
    /\ Parsed
    /\ ProperlyNested(Normalized)
    /\ NoBoundaryOnProcessorLine(Normalized)
    /\ Pairs(Normalized) = 2
    /\ PlainPairs(Normalized) = 1
    /\ Count(out, DisguiseOpen) = 1

\* C3: a }}} met with an empty stack is emitted unchanged (the text returned
\* so far followed by the remaining text is the text it was before the
\* call), the stack stays empty, no error is reported and the parsing goes on
\* right after the boundary.
C3_UnmatchedCloseKept ==
    step.kind = "unmatched" =>
        /\ pc = "parse"
        /\ accumulated = <<>>
        /\ ~errLogged
        /\ out \o in = step.prevOut \o step.prevIn
        /\ Len(in) = Len(step.prevIn) - (BoundaryIndex(step.prevIn) + 2)
        /\ Len(blocks) = Cardinality({k \in 1..Len(blocks) : blocks[k].closed})

\* a literal }}} was kept and a {{{ follows it in the remaining text
C3_Witness ==
    /\ step.kind = "unmatched"
    /\ StartsAt(out, CloseTok, Len(out) - 2)
    /\ BoundaryIndex(in) # 0
    /\ BoundaryString(in) = OpenTok

\* C4: at the end of the input the error is logged if and only if the stack
\* is not empty, the result is the output built so far followed by the
\* remaining text, and convert() goes on with it; no error is logged before
\* the end of the input.
C4_UnclosedIsLoggedOnly ==
    /\ step.kind = "end" =>
           /\ errLogged = (step.prevAcc # <<>>)
           /\ accumulated = step.prevAcc
           /\ out = step.prevOut \o step.prevIn
           /\ Parsed
    /\ step.kind # "end" => ~errLogged /\ ~Parsed

C4_Witness ==
    /\ pc = "done"
    /\ errLogged
    /\ accumulated # <<>>
    /\ step.prevIn # <<>>
    /\ Len(final) > 0

\* C5: every call that finds a boundary goes on with a remaining text that
\* is strictly shorter than the text it received.
C5_RemainingTextShrinks ==
    [][(pc = "parse" /\ pc' = "parse") => Len(in') < Len(in)]_vars

\* a call that opened a block, consumed its processor line and goes on
C5_Witness ==
    /\ pc = "parse"
    /\ step.kind = "open"
    /\ blocks[Len(blocks)].raw # <<>>
    /\ Len(in) < Len(step.prevIn) - 3
    /\ BoundaryIndex(in) # 0

\* the recognized languages and the tag each is fenced with
Languages ==
    { <<"c">>, <<"c", "+", "+">>, <<"p", "s", "1">>, <<"p", "h", "p">>,
      <<"p", "y">>, <<"s", "h">>, <<"c", "p", "p">>, <<"p", "l">> }

LanguageTag(l) == IF l = <<"c", "+", "+">> THEN <<"c", "p", "p">> ELSE l

\* the html tag names, the first of which that prefixes a token names the
\* closing tag
TagNames == << <<"d", "i", "v">>, <<"t", "d">>, <<"t", "h">>, <<"t", "r">>,
               <<"t", "a", "b", "l", "e">> >>

TagToken(tok) == \E k \in 1..Len(TagNames) : HasPrefix(tok, TagNames[k])

TagOf(tok) == TagNames[Min({k \in 1..Len(TagNames) : HasPrefix(tok, TagNames[k])})]

CommentToken(tok) ==
    \/ HasPrefix(tok, <<"c", "o", "m", "m", "e", "n", "t">>)
    \/ HasPrefix(tok, <<"h", "t", "m", "l", "c", "o", "m", "m", "e", "n", "t">>)

HtmlToken(tok) == HasPrefix(tok, <<"h", "t", "m", "l">>)

\* the doc opens a block with the #! line on the line after the {{{
OpensOnNextLine(tok) == Contains(doc, OpenTok \o <<"\n">> \o HashBang \o tok)

\* C6: a block whose trimmed processor token is a recognized language is
\* opened with {@{@{ followed by the language (cpp for c++) and without the
\* #! marker, pushes a plain frame, is closed with the bare }@}@}, and the
\* fence of the final output carries the language.
C6_LanguageFence ==
    \A k \in 1..Len(blocks) :
        LET b == blocks[k]
        IN  TrimSpace(b.raw) \in Languages =>
                /\ b.opener = DisguiseOpen \o LanguageTag(TrimSpace(b.raw))
                /\ StartsAt(out, b.opener, b.openAt)
                /\ ~Contains(b.opener, HashBang)
                /\ b.frame = <<>>
                /\ b.closed => b.closer = DisguiseClose
                /\ pc = "done" =>
                       Contains(final, Fence \o LanguageTag(TrimSpace(b.raw)))

\* a c++ block with the #! line on the line after the {{{, closed
C6_Witness ==
    /\ pc = "done"
    /\ OpensOnNextLine(<<"c", "+", "+">>)
    /\ \E k \in 1..Len(blocks) :
          /\ blocks[k].raw = <<"c", "+", "+">>
          /\ blocks[k].closed
    /\ Contains(final, Fence \o <<"c", "p", "p", "\n">>)

\* the text of out between the boundaries of a block holds no sentinel
NoSentinelInside(b) ==
    ~Contains(Inner(b), DisguiseOpen) /\ ~Contains(Inner(b), DisguiseClose)

\* a token that is kept: not a language, not an html tag, not comment or
\* html, not a CommitTicketReference
KeptToken(tok) ==
    /\ tok # <<>>
    /\ TrimSpace(tok) \notin Languages
    /\ ~TagToken(tok)
    /\ ~CommentToken(tok)
    /\ ~HtmlToken(tok)
    /\ ~HasPrefix(tok, CommitTicketReference)

\* C7 (as claimed): a block with no processor or with an unrecognized one
\* is opened with the generic {@{@{ that carries the raw #!<token>, pushes
\* a plain frame, and is in the final output the fence with #!<token>, the
\* unchanged contents and the closing fence.
C7_UnrecognizedKeptVerbatim ==
    \A k \in 1..Len(blocks) :
        LET b == blocks[k]
        IN  /\ b.raw = <<>> => b.opener = DisguiseOpen /\ b.frame = <<>>
            /\ KeptToken(b.raw) =>
                   /\ b.opener = DisguiseOpen \o HashBang \o b.raw
                   /\ b.frame = <<>>
                   /\ (pc = "done" /\ b.closed /\ NoSentinelInside(b)) =>
                          Contains(final, Fence \o HashBang \o b.raw \o Inner(b) \o Fence)

\* no {@{@{ that starts a line after the first precedes index p of out
NoFenceLineBefore(p) ==
    \A i \in 2..p : ~(StartOfLineAt(out, i) /\ StartsAt(out, DisguiseOpen, i))

TagBoundaries(b) ==
    /\ b.opener = <<"<">> \o b.raw \o <<">", "\n">>
    /\ b.frame = TagOf(b.raw)
    /\ StartsAt(out, b.opener, b.openAt)
    /\ b.closed =>
           /\ b.closer = <<"\n", "<", "/">> \o TagOf(b.raw) \o <<">">>
           /\ StartsAt(out, b.closer, b.closeAt)

C9_CommentBlock ==
    \A k \in 1..Len(blocks) :
        LET b == blocks[k]
        IN  CommentToken(b.raw) =>
                /\ b.opener = <<"<", "!", "-", "-", "-">>
                /\ b.frame = <<"c", "o", "m", "m", "e", "n", "t">>
                /\ b.closed => b.closer = <<"-", "-", ">">>

\* C10 (as claimed): the boundaries of a block opened with the html
\* processor emit nothing, no text between them is handed to the inline
\* transforms, and that text is in the final output as it was.
C10_HtmlBlockUnconverted ==
    \A k \in 1..Len(blocks) :
        LET b == blocks[k]
        IN  b.raw = <<"h", "t", "m", "l">> =>
                /\ b.opener = <<>>
                /\ b.closed => b.closer = <<>>
                /\ (Routed /\ b.closed) => NotHanded(InnerFirst(b), InnerLast(b))
                /\ (pc = "done" /\ b.closed) => Contains(final, Inner(b))

\* C11 (as claimed): a block opened with #!span and attributes is opened
\* with <span attributes>, pushes a span frame, emits no sentinel and is
\* closed with </span>.
C11_SpanBlock ==
    \A k \in 1..Len(blocks) :
        LET b == blocks[k]
        IN  HasPrefix(b.raw, <<"s", "p", "a", "n">>) =>
                /\ HasPrefix(b.opener, <<"<">> \o b.raw \o <<">">>)
                /\ b.frame = <<"s", "p", "a", "n">>
                /\ ~Contains(b.opener, DisguiseOpen)
                /\ b.closed => Contains(b.closer, <<"<", "/", "s", "p", "a", "n", ">">>)

\* the steps of convert() run in the order EOL normalization, parsing,
\* routing, undisguising: each has the result of the one before it and
\* nothing of the ones after it
PipelineOrder ==
    /\ pc = "eol" => in = <<>> /\ out = <<>> /\ routed = <<>> /\ final = <<>>
    /\ pc \in {"parse", "route"} =>
           /\ ~Contains(out \o in, <<"\r", "\n">>)
           /\ routed = <<>> /\ final = <<>>
    /\ pc = "undisguise" => routed = convertNonCodeBlocks(out) /\ final = <<>>
    /\ pc = "done" =>
           /\ routed = convertNonCodeBlocks(out)
           /\ final = undisguiseCodeBlocks(routed)

NoSentinelLeft ==
    pc = "done" => ~Contains(final, DisguiseOpen) /\ ~Contains(final, DisguiseClose)

\* a disguised pair that opens and closes on one line of out
OnOneLine(b) ==
    /\ Disguised(b)
    /\ ~Contains(SubSeq(out, b.openAt, b.closeAt), <<"\n">>)

\* the first character of the line of out that holds index i
LineStart(s, i) ==
    CHOOSE j \in 1..i :
        /\ \A k \in j..(i - 1) : s[k] # "\n"
        /\ j = 1 \/ s[j - 1] = "\n"

\* no sentinel stands on the line of the block before its opening
FirstOnLine(b) ==
    LET before == SubSeq(out, LineStart(out, b.openAt), b.openAt - 1)
    IN  ~Contains(before, DisguiseOpen) /\ ~Contains(before, DisguiseClose)

CodeSpan(text) == <<Backquote>> \o text \o <<Backquote>>

\* the text stands in s as a code span whose opening backquote follows no
\* other backquote
HasCodeSpan(s, text) ==
    \E i \in 1..Len(s) :
        /\ StartsAt(s, CodeSpan(text), i)
        /\ i = 1 \/ s[i - 1] # Backquote

Whole(g, target) ==
    IF g = "camelcase"
    THEN WikiCamelCaseAt(<<"]">> \o target, 1).last = Len(target) + 1
    ELSE GrammarAt(g, target, 1).last = Len(target)

\* what is between the delimiters of the mark in a resolver's result
Payload(marked) ==
    SubSeq(marked, FindFrom(marked, markOpen, 1) + Len(markOpen), Len(marked) - Len(markClose))

\* the URL phase 2 resolves a target to, the empty text when it does not
URLOf(e, ticket, page, target) ==
    LET gs == {n \in 1..Len(Grammars) : Whole(Grammars[n], target)}
        g  == Grammars[Min(gs)]
        s  == IF g = "camelcase" THEN <<"]">> \o target ELSE target
        r  == Resolve(g, e, ticket, page, GrammarAt(g, s, 1), s)
    IN  IF gs = {} THEN <<>>
        ELSE IF r.marked THEN Payload(r.out) ELSE <<>>

\* the bracketed links with a text of s, as the matches of the two regexps
BracketedWithText(s) ==
    {DoubleBracketAt(s, i) : i \in {j \in 1..Len(s) : DoubleBracketAt(s, j).g2 # <<>>}}
    \cup {SingleBracketAt(s, i) :
              i \in {j \in 1..Len(s) : /\ SingleBracketAt(s, j).g2 # <<>>
                                        /\ (j = 1 \/ s[j - 1] # "[")}}

MarkdownLink(text, url) == <<"[">> \o text \o <<"]", "(">> \o url \o <<")">>

\* C13: a bracketed link with a text, [[target|text]] or [target text],
\* whose target phase 2 resolves to the URL u, comes out of convertLinks
\* as [text](u)
C13_BracketedLinkWithText ==
    linkPc = "done" =>
        \A m \in BracketedWithText(linkIn) :
            LET u == URLOf(env, ticketID, wikiPage, m.g1)
            IN  u # <<>> => Contains(linkText, MarkdownLink(m.g2, u))

\* C14: after phase 3 every marked span is final Markdown and every
\* zero-width space is removed: whatever payload the resolvers marked,
\* URLs with an @ included, what convertLinks returns holds no mark
\* delimiter and no U+200B
C14_NoMarkLeft ==
    linkPc = "done" =>
        /\ ~Contains(linkText, markOpen)
        /\ ~Contains(linkText, markClose)
        /\ ~Contains(linkText, <<zeroWidthSpace>>)

\* the indexes of s where a mark starts
Marks(s) == {i \in 1..Len(s) : MarkedLinkAt(s, i).last # 0}

\* the Markdown of a link without a text: an autolink for a bare http(s)
\* URL, the URL as its own text otherwise
TextlessLink(url) ==
    IF HttpAt(url, 1).last = Len(url)
    THEN <<"<">> \o url \o <<">">>
    ELSE MarkdownLink(url, url)

\* C15: unmarkLinks turns every mark that does not directly follow a ]
\* into <url> when its payload is a bare http(s) URL and into [url](url)
\* otherwise, wherever the mark stands, the very start of the text included
C15_TextlessMark ==
    [][linkPc = "unmark" =>
          \A i \in Marks(linkText) :
              (i = 1 \/ linkText[i - 1] # "]") =>
                  Contains(linkText', TextlessLink(MarkedLinkAt(linkText, i).g1))]_vars

\* C16: in phase 2 a span that a grammar has marked is not processed again:
\* no later grammar matches inside the mark, and the mark reaches phase 3
\* as its resolver made it, for instance that of an http URL whose path
\* holds comment:3 or ticket:5
C16_MarksNotReprocessed ==
    linkPc \in {"resolve", "unmark"} =>
        \A n \in 1..Len(resolutions) :
            resolutions[n].marked => Contains(linkText, resolutions[n].out)

\* C17: a reference whose resolution fails (a lookup error or miss, a
\* number that does not parse, no context) stands in what convertLinks
\* returns as its literal text, and every reference that was resolved
\* stands there as the link to its URL
C17_FailureKeepsLiteral ==
    linkPc = "done" =>
        \A n \in 1..Len(resolutions) :
            IF resolutions[n].marked
            THEN Contains(linkText, TextlessLink(Payload(resolutions[n].out)))
            ELSE Contains(linkText, resolutions[n].link)

\* the resolutions of the grammar g made so far
Resolved(g) == {n \in 1..Len(resolutions) : resolutions[n].grammar = g}

\* the comments the destination holds for the comment commentNum of the
\* ticket, the empty set when one of the lookups that lead to them fails
CommentsOf(e, ticket, commentNum) ==
    IF \/ e.errors \cap {"GetIssueID", "GetTicketCommentTime", "GetIssueCommentIDsByTime"} # {}
       \/ ticket \notin DOMAIN e.issues
       \/ <<ticket, commentNum>> \notin DOMAIN e.commentTimes
    THEN {}
    ELSE {c \in e.comments : /\ c.issue = e.issues[ticket]
                             /\ c.time = e.commentTimes[<<ticket, commentNum>>]
                             /\ c.time # 0}

\* C18: a comment:<n> or comment:<n>:ticket:<id> reference is marked only
\* when its ticket is the explicit <id> or else the current ticket, the
\* ticket has an issue, the comment has a non-zero time and the issue has a
\* comment of that time, no lookup failing; the mark then holds the URL of
\* the comment of the lowest type among them; in every other case the
\* resolver returns the literal text
C18_CommentResolution ==
    \A n \in Resolved("comment") :
        LET r      == resolutions[n]
            m      == TicketCommentAt(r.link, 1)
            known  == /\ ~ParseIntFails(m.g1)
                      /\ IF m.g2 # <<>> THEN ~ParseIntFails(m.g2) ELSE ticketID # NullID
            ticket == IF m.g2 # <<>> THEN Decimal(m.g2) ELSE ticketID
            cs     == IF known THEN CommentsOf(env, ticket, Decimal(m.g1)) ELSE {}
        IN  IF cs # {}
            THEN /\ r.marked
                 /\ \E c \in cs :
                        /\ \A d \in cs : c.type <= d.type
                        /\ r.out = markLink(GetIssueCommentURL(c.issue, c.id))
            ELSE ~r.marked /\ r.out = r.link

\* C18 (witness): a comment reference of the current ticket was marked
\* where the issue has two comments of the time of the comment, and one
\* with an explicit ticket was marked too
C18_Witness_CommentMarked ==
    /\ ticketID # NullID
    /\ \E n \in Resolved("comment") :
           /\ resolutions[n].marked
           /\ TicketCommentAt(resolutions[n].link, 1).g2 = <<>>
           /\ Cardinality(CommentsOf(env, ticketID,
                  Decimal(TicketCommentAt(resolutions[n].link, 1).g1))) = 2
    /\ \E n \in Resolved("comment") :
           /\ resolutions[n].marked
           /\ TicketCommentAt(resolutions[n].link, 1).g2 # <<>>

\* where resolveAttachmentLink is to look for the attachment of a link:
\* the ticket or the page of its suffix, else the ticket of the document,
\* else its page, else nowhere
AttachmentScope(link, ticket, page) ==
    LET m == AttachmentAt(link, 1)
    IN  IF m.g3 # <<>> THEN [kind |-> "ticket", of |-> m.g3]
        ELSE IF m.g2 # <<>> THEN [kind |-> "wiki", of |-> m.g2]
        ELSE IF ticket # NullID THEN [kind |-> "ticket", of |-> Sprintd(ticket)]
        ELSE IF page # <<>> THEN [kind |-> "wiki", of |-> page]
        ELSE [kind |-> "none", of |-> <<>>]

\* the issue attachment name of the ticket written as the digits tkt, as
\* the set of its identifiers: empty when a lookup fails or finds nothing
AttachmentsOf(e, tkt, name) ==
    IF \/ ParseIntFails(tkt)
       \/ e.errors \cap {"GetIssueID", "GetIssueAttachmentUUID"} # {}
       \/ Decimal(tkt) \notin DOMAIN e.issues
    THEN {}
    ELSE {<<a[1], e.uuids[a]>> : a \in {b \in DOMAIN e.uuids :
                                          /\ b[1] = e.issues[Decimal(tkt)]
                                          /\ b[2] = name
                                          /\ e.uuids[b] # <<>>}}

\* C19: resolveAttachmentLink takes the scope of an attachment from the
\* :ticket:<id> suffix, else from the :wiki:<page> suffix, else from the
\* current ticket, else from the current wiki page; without any of them it
\* warns and returns the literal; in the scope of a ticket the link is
\* marked only when the issue and the attachment are both found, in the
\* scope of a page it is always marked, whatever the lookups would return
C19_AttachmentScope ==
    \A n \in Resolved("attachment") :
        LET r     == resolutions[n]
            name  == AttachmentAt(r.link, 1).g1
            scope == AttachmentScope(r.link, ticketID, wikiPage)
            found == AttachmentsOf(env, scope.of, name)
        IN  CASE scope.kind = "none" ->
                     ~r.marked /\ r.warn /\ r.out = r.link
              [] scope.kind = "wiki" ->
                     /\ r.marked
                     /\ r.out = markLink(GetWikiFileURL(
                                    GetWikiAttachmentRelPath(scope.of, name)))
              [] scope.kind = "ticket" ->
                     IF found = {}
                     THEN ~r.marked /\ r.out = r.link
                     ELSE /\ r.marked
                          /\ \E a \in found :
                                 r.out = markLink(GetIssueAttachmentURL(a[1], a[2]))

\* C19 (witness): in the conversion of a ticket, an attachment with the
\* suffix of another ticket was marked with the attachment of that ticket
\* and one with the suffix of a wiki page was marked with the file of that
\* page
C19_Witness_SuffixBeforeContext ==
    /\ ticketID # NullID
    /\ \E n \in Resolved("attachment") :
           LET m == AttachmentAt(resolutions[n].link, 1)
           IN  /\ m.g3 # <<>> /\ Decimal(m.g3) # ticketID
               /\ resolutions[n].marked
               /\ AttachmentsOf(env, Sprintd(ticketID), m.g1) # {}
               /\ resolutions[n].out
                      # resolveTicketAttachmentLink(env, ticketID, m.g1, resolutions[n].link).out
    /\ \E n \in Resolved("attachment") :
           /\ AttachmentAt(resolutions[n].link, 1).g2 # <<>>
           /\ resolutions[n].marked

\* C20: when CopyFileToWiki fails for the file of an htdocs:<path>
\* reference, the conversion does not go on to return a text as if the
\* copy had been made: the reference is not marked as resolved and
\* convertLinks does not come to its end
C20_CopyFailureIsHardError ==
    (Failed(env, "CopyFileToWiki") /\ copied # <<>>) =>
        /\ \A n \in Resolved("htdocs") : ~resolutions[n].marked
        /\ linkPc # "done"

\* ---- the stack of blocks

\* the closer that belongs to a kind of frame: </tag> after a newline for
\* an HTML tag, --> for a comment, nothing for raw html, }@}@} for a plain
\* or language frame
CloserOfFrame(frame) ==
    CASE frame \in {htmlTags[k] : k \in 1..Len(htmlTags)} ->
             <<"\n", "<", "/">> \o frame \o <<">">>
      [] frame = <<"c", "o", "m", "m", "e", "n", "t">> -> <<"-", "-", ">">>
      [] frame = <<"h", "t", "m", "l">> -> <<>>
      [] OTHER -> <<"}", "@", "}", "@", "}">>

\* the indexes of the blocks that are opened and not closed, and their
\* frames in the order of their opening
OpenBlocks == {k \in 1..Len(blocks) : ~blocks[k].closed}

OpenFrames == [n \in 1..Cardinality(OpenBlocks) |->
                  blocks[CHOOSE k \in OpenBlocks :
                             Cardinality({j \in OpenBlocks : j <= k}) = n].frame]

\* C23: closes match opens in LIFO order: a }}} met inside a block emits
\* the closer of the kind of the most recently opened block that is not
\* closed, takes exactly that frame off the stack and leaves the frames
\* below as they were; at every step the stack holds the frames of the
\* blocks opened and not closed, so its depth is the number of opens minus
\* the number of matched closes
C23_ClosesAreLIFO ==
    /\ accumulated = OpenFrames
    /\ Len(accumulated) = Len(blocks) - Cardinality({k \in 1..Len(blocks) : blocks[k].closed})
    /\ step.kind = "close" =>
           /\ Len(step.prevAcc) >= 1
           /\ Len(accumulated) = Len(step.prevAcc) - 1
           /\ accumulated = SubSeq(step.prevAcc, 1, Len(accumulated))
           /\ out = step.prevOut \o BeforeBoundary(step.prevIn)
                        \o CloserOfFrame(step.prevAcc[Len(step.prevAcc)])
    /\ step.kind = "open" =>
           /\ Len(accumulated) = Len(step.prevAcc) + 1
           /\ step.prevAcc = SubSeq(accumulated, 1, Len(step.prevAcc))
    /\ step.kind \in {"unmatched", "end"} => accumulated = step.prevAcc

\* C23 (witness): a block was closed inside another one of a different
\* kind, and the frame of the outer one stayed on the stack
C23_Witness_NestedClose ==
    /\ step.kind = "close"
    /\ Len(step.prevAcc) = 2
    /\ step.prevAcc[1] # step.prevAcc[2]
    /\ step.prevAcc[1] # <<>>
    /\ accumulated = <<step.prevAcc[1]>>

\* the index of a grammar in the order of phase 2
GrammarIndex(g) == CHOOSE n \in 1..Len(Grammars) : Grammars[n] = g

\* a reference that ends with the suffix :ticket:<id> or :wiki:<page>
HasScopeSuffix(r) ==
    \/ r.grammar = "attachment" /\ (AttachmentAt(r.link, 1).g2 # <<>>
                                    \/ AttachmentAt(r.link, 1).g3 # <<>>)
    \/ r.grammar = "comment" /\ TicketCommentAt(r.link, 1).g2 # <<>>

\* C24: phase 2 applies the grammars in the order http, htdocs, comment,
\* milestone, attachment, changeset, source, ticket, wiki, CamelCase, and
\* the ticket:<id> or wiki:<page> suffix of an attachment or comment
\* reference is never resolved on its own: what the resolver returned for
\* the whole reference, its mark or its literal after a failure, stays in
\* the text through the later grammars
C24_SuffixNotResolvedAlone ==
    /\ Grammars = <<"http", "htdocs", "comment", "milestone", "attachment", "changeset",
                    "source", "ticket", "wiki", "camelcase">>
    /\ \A a, b \in 1..Len(resolutions) :
           a < b => GrammarIndex(resolutions[a].grammar) <= GrammarIndex(resolutions[b].grammar)
    /\ linkPc \in {"resolve", "unmark"} =>
           \A n \in 1..Len(resolutions) :
               HasScopeSuffix(resolutions[n]) => Contains(linkText, resolutions[n].out)

\* C25: the initial changes of a ticket are, for each field of the list in
\* the order of the list, one change whose value is the old value of the
\* earliest recorded change of the field when there is one and the value in
\* the ticket table otherwise, none when that value is empty; each has an
\* empty old value, the reporter as author and the creation time of the
\* ticket, and all of them come before every recorded change.
EarliestChange(f) ==
    CHOOSE r \in ticketChange :
        r.field = f /\ \A q \in ticketChange : q.field = f => r.time <= q.time

InitialValue(f) ==
    IF \E r \in ticketChange : r.field = f
    THEN EarliestChange(f).old
    ELSE tracTicket.values[f]

ExpectedInitialChanges ==
    Keep([k \in 1..Len(initialTicketChangeFields) |->
             [field  |-> initialTicketChangeFields[k],
              author |-> tracTicket.reporter,
              old    |-> "",
              new    |-> InitialValue(initialTicketChangeFields[k]),
              time   |-> Seconds(tracTicket.time)]],
         {k \in 1..Len(initialTicketChangeFields) :
             InitialValue(initialTicketChangeFields[k]) # ""})

C25_InitialChanges ==
    /\ changesPc \in {"recorded", "done"} =>
           /\ Len(changes) >= Len(ExpectedInitialChanges)
           /\ SubSeq(changes, 1, Len(ExpectedInitialChanges)) = ExpectedInitialChanges
           /\ \A k \in (Len(ExpectedInitialChanges) + 1)..Len(changes) :
                  changes[k].author # tracTicket.reporter
    /\ changesPc = "failed" =>
           \A k \in 1..Len(changes) :
               k <= Len(ExpectedInitialChanges) => changes[k] = ExpectedInitialChanges[k]

\* the element name of a tag: what follows < or </ up to the first white
\* space, / or >
ElementName(tag) ==
    LET from == IF Contains(tag, <<"<", "/">>) THEN FindFrom(tag, <<"<", "/">>, 1) + 2
                ELSE FindFrom(tag, <<"<">>, 1) + 1
    IN  SubSeq(tag, from, RunEndNot(tag, from, SpaceChars \cup {"/", ">"}))

\* the blocks that were converted to an HTML element and are closed
ElementBlocks ==
    {k \in 1..Len(blocks) :
        /\ blocks[k].closed
        /\ \E t \in 1..Len(htmlTags) : blocks[k].frame = htmlTags[t]}

\* C26: for every block converted to an HTML element, the element name in
\* the closing tag that was emitted is the element name in the opening tag
\* that was emitted, whatever processor token the prefix match on the html
\* tags accepted
C26_ClosingTagNamesOpeningElement ==
    \A k \in ElementBlocks :
        ElementName(blocks[k].closer) = ElementName(blocks[k].opener)

\* a block opened and closed inside another one
NestedIn(inner, outer) == outer.openAt < inner.openAt /\ inner.closeAt < outer.closeAt

\* C27: when plain blocks are nested, the text of the outer block that
\* follows the close of the inner block, up to the close of the outer
\* block, is not handed to the inline transforms by convertNonCodeBlocks
C27_OuterProtectedAfterInner ==
    Routed =>
        \A j, k \in 1..Len(blocks) :
            (/\ Disguised(blocks[j])
             /\ Disguised(blocks[k])
             /\ NestedIn(blocks[k], blocks[j])) =>
                NotHanded(blocks[k].closeAt + Len(blocks[k].closer), InnerLast(blocks[j]))

\* the key of a comment of the destination
CommentKey(r) == <<r.issue, r.created, r.type>>

\* the comments that had, before the last call of AddIssueComment, the key
\* of the comment of that call: its issue, its time and its type
ExistingComments ==
    {r \in issueComment.before :
        CommentKey(r) = <<issueComment.issueID, issueComment.comment.time,
                          issueComment.comment.type>>}

\* C30: AddIssueComment is an upsert keyed by issue id, creation time and
\* comment type: the table never holds two comments with one key; a call
\* whose key exists inserts nothing and returns the id of the existing
\* comment, which is updated when overwrite is set and left as it was
\* otherwise; a call whose key does not exist inserts exactly one comment
\* and returns its id
C30_AddIssueCommentIsUpsert ==
    /\ \A r1, r2 \in issueComment.table : CommentKey(r1) = CommentKey(r2) => r1 = r2
    /\ (issueComment.calls > 0 /\ ~issueComment.failed) =>
           IF ExistingComments # {}
           THEN /\ {r.id : r \in issueComment.table} = {r.id : r \in issueComment.before}
                /\ issueComment.id \in {r.id : r \in ExistingComments}
                /\ \A r \in issueComment.table :
                       r.id # issueComment.id => r \in issueComment.before
                /\ \A r \in issueComment.table :
                       r.id = issueComment.id =>
                           IF issueComment.overwrite
                           THEN r.text = issueComment.comment.text
                           ELSE r \in issueComment.before
           ELSE /\ issueComment.before \subseteq issueComment.table
                /\ Cardinality(issueComment.table) = Cardinality(issueComment.before) + 1
                /\ \E r \in issueComment.table \ issueComment.before :
                       /\ r.id = issueComment.id
                       /\ CommentKey(r) = <<issueComment.issueID, issueComment.comment.time,
                                            issueComment.comment.type>>
                       /\ r.text = issueComment.comment.text

\* the number of calls of an operation made by the run
CallsOf(op) == Cardinality({k \in 1..Len(importRun.calls) : importRun.calls[k] = op})

\* the import steps of performImport: those of importData, then ImportWiki
ImportSteps == importData \o <<"ImportWiki">>

\* the import steps the run has called, in the order of their calls
StepsCalled ==
    SelectSeq(importRun.calls, LAMBDA c : \E k \in 1..Len(ImportSteps) : c = ImportSteps[k])

\* C28: a run of performImport ends with exactly one call of CommitImport
\* or RollbackImport and never calls both; RollbackImport is called if and
\* only if an import step returned an error, and that step is the last one
\* that ran; the wiki is imported only after every step of importData
\* succeeded, not at all with db-only, and alone with wiki-only; CommitImport
\* is called only when no step returned an error
C28_OneCommitOrRollback ==
    importRun.entry = "performImport" =>
        /\ CallsOf("CommitImport") + CallsOf("RollbackImport") <= 1
        /\ importRun.pc = "done" => CallsOf("CommitImport") + CallsOf("RollbackImport") = 1
        /\ importRun.pc = "done" => (CallsOf("RollbackImport") = 1 <=> importRun.stepError # "")
        /\ CallsOf("RollbackImport") = 1 => importRun.stepError # ""
        /\ CallsOf("CommitImport") = 1 => importRun.stepError = ""
        /\ importRun.stepError # "" =>
               /\ StepsCalled[Len(StepsCalled)] = importRun.stepError
               /\ importRun.pc \in {"rollback", "done"}
        /\ \A k \in 1..Len(StepsCalled) : CallsOf(StepsCalled[k]) = 1
        /\ importRun.wikiOnly => \A k \in 1..Len(StepsCalled) : StepsCalled[k] = "ImportWiki"
        /\ importRun.dbOnly => CallsOf("ImportWiki") = 0
        /\ (CallsOf("ImportWiki") = 1 /\ ~importRun.wikiOnly) =>
               /\ StepsCalled = ImportSteps
               /\ importRun.stepError \in {"", "ImportWiki"}
        /\ (importRun.pc = "done" /\ importRun.stepError = "") =>
               StepsCalled = IF importRun.wikiOnly THEN <<"ImportWiki">>
                             ELSE IF importRun.dbOnly THEN importData ELSE ImportSteps

\* C28 (witness): a run ended with RollbackImport after a step in the middle
\* of importData returned an error, no later step having run
C28_Witness_RollbackAfterFailure ==
    /\ importRun.entry = "performImport"
    /\ importRun.pc = "done"
    /\ importRun.stepError = "ImportSeverities"
    /\ importRun.calls = SubSeq(importData, 1, 5) \o <<"RollbackImport">>

\* C29: ImportWiki returns an error whenever the copy of a wiki attachment,
\* the write of a wiki page or the commit of a wiki page failed: after such
\* a failure the run calls neither CommitImport nor PushWiki
C29_FailedWikiImportNotCommitted ==
    importRun.wikiFailed =>
        /\ CallsOf("CommitImport") = 0
        /\ CallsOf("PushWiki") = 0
        /\ importRun.pc = "done" => importRun.result = "error"

\* the latest of the creation time of a ticket, the times of the attachments
\* created for it and the times of its changes
LatestOf(t) ==
    CHOOSE m \in {t.created} \cup {t.changes[k] : k \in 1..Len(t.changes)}
                 \cup {t.attachments[k].time :
                           k \in {j \in 1..Len(t.attachments) : t.attachments[j].created}} :
        /\ t.created <= m
        /\ \A k \in 1..Len(t.changes) : t.changes[k] <= m
        /\ \A k \in 1..Len(t.attachments) :
               t.attachments[k].created => t.attachments[k].time <= m

\* C21: the time given to SetIssueUpdateTime for a ticket is the latest of
\* the creation time of the ticket and the times of the attachments and of
\* the changes imported for it: an attachment later than the creation of the
\* ticket moves the update time forward
C21_UpdateTimeIsLatest ==
    \A k \in 1..Len(ticketRun.calls) :
        ticketRun.calls[k].op = "SetIssueUpdateTime" =>
            ticketRun.calls[k].time = LatestOf(ticketRun.tickets[ticketRun.calls[k].ticket])

\* the calls made for a ticket, in their order
CallsFor(id) == SelectSeq(ticketRun.calls, LAMBDA c : c.ticket = id)

\* the number of calls of an operation for a ticket
CountFor(id, op) == Len(SelectSeq(CallsFor(id), LAMBDA c : c.op = op))

\* C22: for every ticket the issue is created first, with an empty
\* description; the description is converted and written only after the
\* issue, its attachments and its changes were imported and the issue index
\* was updated, and the write of the description is the last call made for
\* the ticket; a ticket whose handler returned without error, an issue
\* having been created, has its description written once
C22_DescriptionLast ==
    \A i \in 1..Len(ticketRun.tickets) :
        LET t  == ticketRun.tickets[i]
            cs == CallsFor(t.id)
        IN  /\ cs # <<>> => cs[1].op = "AddIssue" /\ cs[1].text = ""
            /\ CountFor(t.id, "AddIssue") <= 1
            /\ \A k \in 1..Len(cs) :
                   cs[k].op = "TicketConvert" =>
                       /\ Len(SelectSeq(SubSeq(cs, 1, k), LAMBDA c : c.op = "importTicketAttachment"))
                              = Len(t.attachments)
                       /\ Len(SelectSeq(SubSeq(cs, 1, k), LAMBDA c : c.op = "importTicketChange"))
                              = Len(t.changes)
                       /\ \E j \in 1..(k - 1) : cs[j].op = "UpdateIssueIndex"
                       /\ \E j \in 1..(k - 1) : cs[j].op = "SetIssueUpdateTime"
            /\ \A k \in 1..Len(cs) :
                   cs[k].op = "UpdateIssueDescription" =>
                       /\ k = Len(cs)
                       /\ k > 1 /\ cs[k - 1].op = "TicketConvert"
                       /\ cs[k - 1].text = t.description
            /\ (~t.skipped /\ ticketRun.at > i) =>
                   CountFor(t.id, "UpdateIssueDescription") = 1

\* C22 (witness): two tickets were imported without error, the first one
\* with an attachment and changes; each description was written after the
\* attachments and the changes of its ticket
C22_Witness_TwoTicketsImported ==
    /\ ticketRun.pc = "done"
    /\ ticketRun.result = "nil"
    /\ Len(ticketRun.tickets) = 2
    /\ Len(ticketRun.tickets[1].attachments) = 1
    /\ Len(ticketRun.tickets[1].changes) = 2
    /\ CountFor(1, "UpdateIssueDescription") = 1
    /\ CountFor(2, "UpdateIssueDescription") = 1
    /\ CountFor(1, "importTicketAttachment") = 1
    /\ CountFor(1, "importTicketChange") = 2

====
